---- MODULE Spec2Model ----
(***************************************************************************)
(* Model of the svelte-webflow-cms table state container (CmsTable.Root),  *)
(* the save bar that drives it, and the server actions it posts to.        *)
(*                                                                         *)
(* JavaScript values are tagged records so that values of different types  *)
(* can be compared.  A fieldData object is a function from slug to value;  *)
(* Undefined stands both for a missing key and for a key holding           *)
(* undefined (the code never tells the two apart: JSON.stringify drops     *)
(* both).  No handler deletes a key, so the keys of an item are always its *)
(* baseline's keys followed by the added ones and the key order never      *)
(* decides a comparison; serialisation walks the slugs in one fixed order. *)
(***************************************************************************)
EXTENDS Integers, Sequences, FiniteSets, TLC

VARIABLES
    config,             \* TableConfig (read-only for the page view)
    data,               \* the data prop handed to CmsTable.Root
    items,
    originalItems,
    pendingCreates,
    pendingDeletes,
    tempFiles,
    pendingFileUploads,
    isSaving,
    validationErrors,
    pc,                 \* "idle" | "uploading" | "saving" | "reloading"
    uploadIter,         \* rest of the array uploadPendingFiles() iterates
    request,            \* the saveAll form post in flight (<<>> when none)
    submitErrors,       \* what validateItems() returned to the last enhance run
    lastOp,             \* the handler that ran last
    lastCalls,          \* Webflow API calls caused by the last handler
    opCount,            \* user operations so far
    tempSeq,            \* temporary ids handed out
    urlSeq,             \* blob and asset URLs handed out
    srvPc,              \* where the saveAll action stands in its payload
    srvCalls,           \* Webflow API calls the saveAll action has made
    srvResult,          \* what the saveAll action returned
    refFetches,         \* loadReferenceData: the listItems request of each collection
    referenceData,      \* loadReferenceData: the object it fills
    refResult,          \* loadReferenceData: what it returned
    remote              \* the collection as Webflow holds it for the page

vars == <<config, data, items, originalItems, pendingCreates, pendingDeletes,
          tempFiles, pendingFileUploads, isSaving, validationErrors, pc,
          uploadIter, request, submitErrors, lastOp, lastCalls, opCount,
          tempSeq, urlSeq, srvPc, srvCalls, srvResult,
          refFetches, referenceData, refResult, remote>>

\* the variables of the saveAll server action
srv == <<srvPc, srvCalls, srvResult>>

\* the variables of loadReferenceData
loader == <<refFetches, referenceData, refResult>>

\* the variables of the page
client == <<config, data, items, originalItems, pendingCreates, pendingDeletes,
            tempFiles, pendingFileUploads, isSaving, validationErrors, pc,
            uploadIter, request, submitErrors, lastOp, lastCalls, opCount,
            tempSeq, urlSeq>>

\* position of saveAll: the phase, the entry of its list, the call to make
Pos(phase, i, step) == [phase |-> phase, i |-> i, step |-> step]

\* no saveAll action is running
ServerOff == Pos("off", 0, "none")

\* no loadReferenceData is running
NotReturned == [type |-> "none"]

LoaderOff ==
    /\ refFetches = <<>>
    /\ referenceData = <<>>
    /\ refResult = NotReturned

\* Bound: number of user operations in one editing session.
MaxOps == 3

(***************************************************************************)
(* JavaScript values                                                       *)
(***************************************************************************)
Undefined == [t |-> "undefined"]
Null == [t |-> "null"]
Str(s) == [t |-> "string", s |-> s]
Num(n) == [t |-> "number", n |-> n]
FileObj(u) == [t |-> "object", url |-> u]

\* URLs are <<scheme, n>>: a local preview "blob:..." or an uploaded asset
BlobUrl(n) == <<"blob:", n>>
AssetUrl(n) == <<"https://assets.website-files.com/", n>>
\* value?.url?.startsWith("blob:")
IsBlob(v) == v.t = "object" /\ v.url[1] = "blob:"

(***************************************************************************)
(* Configuration                                                           *)
(***************************************************************************)
\* a validations object; 0 and Undefined stand for a key that is not set
NoValidations == [maxLength |-> 0, minLength |-> 0,
                  minimum |-> Undefined, maximum |-> Undefined,
                  min |-> Undefined, max |-> Undefined,
                  collectionId |-> Undefined]

NameField == [slug |-> "name", name |-> "Name", type |-> "PlainText",
              visible |-> TRUE, editable |-> TRUE, required |-> TRUE,
              defaultValue |-> Undefined,
              validations |-> [NoValidations EXCEPT !.maxLength = 10]]
DocField == [slug |-> "doc", name |-> "Doc", type |-> "File",
             visible |-> TRUE, editable |-> TRUE, required |-> FALSE,
             defaultValue |-> Undefined, validations |-> NoValidations]
PhotoField == [slug |-> "photo", name |-> "Photo", type |-> "Image",
               visible |-> TRUE, editable |-> TRUE, required |-> FALSE,
               defaultValue |-> Undefined, validations |-> NoValidations]

Fields == <<NameField, DocField, PhotoField>>
SortSlug == "sort"
Slugs == <<"name", "doc", "photo", "sort">>
SlugSet == {Slugs[i] : i \in 1..Len(Slugs)}

Configs == [sortType : {"Number", "DateTime", "None"},
            draftEnabled : BOOLEAN,
            createDeleteEnabled : {TRUE},
            fields : {Fields}]

(***************************************************************************)
(* Collection data as loadCmsItems returns it (sorted by the sort field)   *)
(***************************************************************************)
FieldData(n, d, p, s) == [name |-> n, doc |-> d, photo |-> p, sort |-> s]

Item(id, fd, isDraft, isArchived) ==
    [id |-> id, fieldData |-> fd, isDraft |-> isDraft, isArchived |-> isArchived]

SortValue(sortType, k) ==
    CASE sortType = "Number" -> Num(2 * k - 1)
      [] sortType = "DateTime" -> Str("2024-01-0" \o ToString(k) \o "T00:00:00.000Z")
      [] OTHER -> Undefined

\* item "a" is live; item "b" is a draft without a name, or archived
DataSets(sortType) ==
    { << Item("a", FieldData(Str("a"), Undefined, Undefined, SortValue(sortType, 1)),
              FALSE, FALSE),
         Item("b", FieldData(b[1], Undefined, Undefined, SortValue(sortType, 2)),
              b[2], b[3]) >> :
        b \in {<<Undefined, TRUE, FALSE>>, <<Str("a"), FALSE, TRUE>>} }

(***************************************************************************)
(* Helpers of the state container                                          *)
(***************************************************************************)
\* JSON.stringify of a fieldData object: the keys holding undefined are dropped
Stringify(fd) ==
    LET F[i \in 0..Len(Slugs)] ==
            IF i = 0 THEN <<>>
            ELSE IF fd[Slugs[i]] = Undefined THEN F[i - 1]
                 ELSE Append(F[i - 1], <<Slugs[i], fd[Slugs[i]]>>)
    IN F[Len(Slugs)]

\* JSON.parse of such a string
Parse(js) ==
    [s \in SlugSet |->
        IF \E i \in 1..Len(js) : js[i][1] = s
        THEN (CHOOSE v \in {js[i][2] : i \in {j \in 1..Len(js) : js[j][1] = s}} : TRUE)
        ELSE Undefined]

deepCloneItem(item) == [item EXCEPT !.fieldData = Parse(Stringify(item.fieldData))]

deepClone(list) == [i \in 1..Len(list) |-> deepCloneItem(list[i])]

normalizeFieldData_keepEmpty(fd) == [s \in SlugSet |-> fd[s]]

\* drops the keys holding the empty string
normalizeFieldData(fd) ==
    [s \in SlugSet |-> IF fd[s] = Str("") THEN Undefined ELSE fd[s]]

\* items.map(i => i.id).join(",")
JoinIds(list) ==
    LET F[i \in 0..Len(list)] ==
            IF i = 0 THEN ""
            ELSE IF i = 1 THEN list[1].id
                 ELSE F[i - 1] \o "," \o list[i].id
    IN F[Len(list)]

\* list.find(o => o.id === id): index of the first match, 0 when none
FindIndex(list, id) ==
    IF \E i \in 1..Len(list) : list[i].id = id
    THEN CHOOSE i \in 1..Len(list) :
            list[i].id = id /\ \A j \in 1..(i - 1) : list[j].id # id
    ELSE 0

FilterSeq(list, Keep(_)) ==
    LET F[i \in 0..Len(list)] ==
            IF i = 0 THEN <<>>
            ELSE IF Keep(list[i]) THEN Append(F[i - 1], list[i]) ELSE F[i - 1]
    IN F[Len(list)]

ItemChanged_noDraft(item, original) ==
    Stringify(normalizeFieldData(item.fieldData))
      # Stringify(normalizeFieldData(original.fieldData))

ItemChanged(item, original) ==
    \/ Stringify(normalizeFieldData(item.fieldData))
         # Stringify(normalizeFieldData(original.fieldData))
    \/ item.isDraft # original.isDraft

hasChangesOf(its, orig, creates, deletes) ==
    \/ Len(creates) > 0 \/ Len(deletes) > 0
    \/ JoinIds(its) # JoinIds(orig)
    \/ \E i \in 1..Len(its) :
          LET k == FindIndex(orig, its[i].id)
          IN IF k = 0 THEN TRUE ELSE ItemChanged(its[i], orig[k])

hasChanges == hasChangesOf(items, originalItems, pendingCreates, pendingDeletes)

getChangedItemsOf_currentLive(its, orig) ==
    LET Keep(item) ==
            LET k == FindIndex(orig, item.id)
            IN IF k = 0 THEN FALSE ELSE ItemChanged(item, orig[k])
        kept == FilterSeq(its, Keep)
    IN [i \in 1..Len(kept) |->
          [item |-> kept[i],
           wasLive |-> ~kept[i].isDraft /\ ~kept[i].isArchived]]

getChangedItemsOf(its, orig) ==
    LET Keep(item) ==
            LET k == FindIndex(orig, item.id)
            IN IF k = 0 THEN FALSE ELSE ItemChanged(item, orig[k])
        kept == FilterSeq(its, Keep)
    IN [i \in 1..Len(kept) |->
          LET k == FindIndex(orig, kept[i].id)
          IN [item |-> kept[i],
              wasLive |-> IF k # 0
                          THEN ~orig[k].isDraft /\ ~orig[k].isArchived
                          ELSE FALSE]]

getPayloadOf(its, orig, creates, deletes) ==
    [updates |-> getChangedItemsOf(its, orig),
     creates |-> creates,
     deletes |-> deletes]

getPayload == getPayloadOf(items, originalItems, pendingCreates, pendingDeletes)

(***************************************************************************)
(* validateItems                                                           *)
(***************************************************************************)
\* obj?.[key]: undefined when the key is missing
Get(obj, key) == IF key \in DOMAIN obj THEN obj[key] ELSE Undefined

IsEmptyValue_noArray(v) == v = Undefined \/ v = Null \/ v = Str("")

IsEmptyValue(v) ==
    \/ v = Undefined \/ v = Null \/ v = Str("")
    \/ (v.t = "array" /\ Len(v.a) = 0)

\* !field.editable, where the flag may be left out of the field
notEditable(field) == IF "editable" \in DOMAIN field THEN ~field.editable ELSE TRUE

\* cms-cell: editable = field.editable !== false
cellEditable(field) == IF "editable" \in DOMAIN field THEN field.editable # FALSE ELSE TRUE

\* the errors one field of one item contributes, in the order they are pushed
FieldErrors(item, field) ==
    LET value == Get(item.fieldData, field.slug)
        val == field.validations
        err(kind) == <<[itemId |-> item.id, fieldName |-> field.name,
                        message |-> kind]>>
    IN IF ~field.visible \/ notEditable(field) THEN <<>>
       ELSE IF field.required /\ IsEmptyValue(value) THEN err("is required")
       ELSE IF value = Undefined \/ value = Null \/ value = Str("") THEN <<>>
       ELSE IF val = Undefined THEN <<>>
       ELSE (IF val.maxLength # 0 /\ value.t = "string" /\ Len(value.s) > val.maxLength
             THEN err("exceeds max length") ELSE <<>>)
         \o (IF val.minLength # 0 /\ value.t = "string" /\ Len(value.s) < val.minLength
             THEN err("is too short") ELSE <<>>)
         \o (IF value.t = "number" /\ val.minimum # Undefined /\ value.n < val.minimum.n
             THEN err("is below minimum") ELSE <<>>)
         \o (IF value.t = "number" /\ val.maximum # Undefined /\ value.n > val.maximum.n
             THEN err("is above maximum") ELSE <<>>)

ItemErrors(item) ==
    LET F[i \in 0..Len(config.fields)] ==
            IF i = 0 THEN <<>> ELSE F[i - 1] \o FieldErrors(item, config.fields[i])
    IN F[Len(config.fields)]

validateItemsOf(its, creates) ==
    LET all == its \o creates
        F[i \in 0..Len(all)] ==
            IF i = 0 THEN <<>> ELSE F[i - 1] \o ItemErrors(all[i])
    IN F[Len(all)]

validateItems == validateItemsOf(items, pendingCreates)

Messages(errors) ==
    [i \in 1..Len(errors) |-> errors[i].fieldName \o " " \o errors[i].message]

(***************************************************************************)
(* Rows of the table: the items followed by the pending creates            *)
(***************************************************************************)
Rows == ({"items"} \X (1..Len(items))) \cup ({"creates"} \X (1..Len(pendingCreates)))

RowItem(r) == IF r[1] = "items" THEN items[r[2]] ELSE pendingCreates[r[2]]

\* bind:value / bind:item write through to the row's object
SetRow(r, new) ==
    IF r[1] = "items"
    THEN /\ items' = [items EXCEPT ![r[2]] = new]
         /\ UNCHANGED pendingCreates
    ELSE /\ pendingCreates' = [pendingCreates EXCEPT ![r[2]] = new]
         /\ UNCHANGED items

HasUrl(v) == v.t = "object"

Orders(n) == {p \in [1..n -> 1..n] : \A i, j \in 1..n : p[i] = p[j] => i = j}

Permute(list, p) == [i \in 1..Len(list) |-> list[p[i]]]

NoRequest == <<>>

UserOp(name) ==
    /\ opCount < MaxOps
    /\ opCount' = opCount + 1
    /\ lastOp' = name
    /\ submitErrors' = <<>>

(***************************************************************************)
(* Initial state: CmsTable.Root mounted with the loaded data               *)
(***************************************************************************)
Init ==
    /\ config \in Configs
    /\ data \in DataSets(config.sortType)
    /\ items = deepClone(data)
    /\ originalItems = deepClone(data)
    /\ pendingCreates = <<>>
    /\ pendingDeletes = <<>>
    /\ tempFiles = {}
    /\ pendingFileUploads = <<>>
    /\ isSaving = FALSE
    /\ validationErrors = <<>>
    /\ pc = "idle"
    /\ uploadIter = <<>>
    /\ request = NoRequest
    /\ submitErrors = <<>>
    /\ lastOp = "mount"
    /\ lastCalls = <<>>
    /\ opCount = 0
    /\ tempSeq = 0
    /\ urlSeq = 0
    /\ srvPc = ServerOff
    /\ srvCalls = <<>>
    /\ srvResult = "none"
    /\ LoaderOff
    /\ remote = data

(***************************************************************************)
(* Local operations                                                        *)
(***************************************************************************)
DefaultFor(field) ==
    IF field.defaultValue # Undefined THEN field.defaultValue
    ELSE IF field.type = "Switch" THEN [t |-> "boolean", b |-> FALSE]
    ELSE IF field.type = "Number" THEN Num(0)
    ELSE IF field.type = "MultiReference" THEN [t |-> "array", a |-> <<>>]
    ELSE Str("")

DefaultFieldData ==
    [s \in SlugSet |->
        IF \E i \in 1..Len(Fields) : Fields[i].slug = s
        THEN DefaultFor(Fields[CHOOSE i \in 1..Len(Fields) : Fields[i].slug = s])
        ELSE Undefined]

Max(a, b) == IF a >= b THEN a ELSE b

\* allItems.reduce((max, item) => Math.max(max, number or 0), 0)
maxSortOf(all) ==
    LET F[i \in 0..Len(all)] ==
            IF i = 0 THEN 0
            ELSE LET val == all[i].fieldData[SortSlug]
                 IN Max(F[i - 1], IF val.t = "number" THEN val.n ELSE 0)
    IN F[Len(all)]

NewItem_itemsOnly ==
    LET base == DefaultFieldData
        fd == IF config.sortType = "Number"
              THEN [base EXCEPT ![SortSlug] = Num(maxSortOf(items) + 1)]
              ELSE base
    IN [id |-> "temp-" \o ToString(tempSeq + 1), fieldData |-> fd,
        isDraft |-> config.draftEnabled, isArchived |-> config.draftEnabled]

NewItem ==
    LET base == DefaultFieldData
        fd == IF config.sortType = "Number"
              THEN [base EXCEPT ![SortSlug] = Num(maxSortOf(items \o pendingCreates) + 1)]
              ELSE base
    IN [id |-> "temp-" \o ToString(tempSeq + 1), fieldData |-> fd,
        isDraft |-> config.draftEnabled, isArchived |-> config.draftEnabled]

handleAddItem ==
    /\ config.createDeleteEnabled
    /\ UserOp("handleAddItem")
    /\ pendingCreates' = Append(pendingCreates, NewItem)
    /\ tempSeq' = tempSeq + 1
    /\ lastCalls' = <<>>
    /\ UNCHANGED <<srv, loader, remote, config, data, items, originalItems, pendingDeletes, tempFiles,
                   pendingFileUploads, isSaving, validationErrors, pc, uploadIter,
                   request, urlSeq>>

handleDeleteItem_keepsRow(i) ==
    LET item == items[i]
        wasLive == ~item.isDraft /\ ~item.isArchived
    IN /\ config.createDeleteEnabled
       /\ UserOp("handleDeleteItem")
       /\ pendingDeletes' = Append(pendingDeletes, [id |-> item.id, wasLive |-> wasLive])
       /\ items' = items
       /\ lastCalls' = <<>>
       /\ UNCHANGED <<srv, loader, remote, config, data, originalItems, pendingCreates, tempFiles,
                      pendingFileUploads, isSaving, validationErrors, pc, uploadIter,
                      request, tempSeq, urlSeq>>

handleDeleteItem(i) ==
    LET item == items[i]
        wasLive == ~item.isDraft /\ ~item.isArchived
        Keep(x) == x.id # item.id
    IN /\ config.createDeleteEnabled
       /\ UserOp("handleDeleteItem")
       /\ pendingDeletes' = Append(pendingDeletes, [id |-> item.id, wasLive |-> wasLive])
       /\ items' = FilterSeq(items, Keep)
       /\ lastCalls' = <<>>
       /\ UNCHANGED <<srv, loader, remote, config, data, originalItems, pendingCreates, tempFiles,
                      pendingFileUploads, isSaving, validationErrors, pc, uploadIter,
                      request, tempSeq, urlSeq>>

deletePendingCreate_tombstone(i) ==
    /\ config.createDeleteEnabled
    /\ UserOp("deletePendingCreate")
    /\ pendingCreates' = [k \in 1..(Len(pendingCreates) - 1) |->
                            IF k < i THEN pendingCreates[k] ELSE pendingCreates[k + 1]]
    /\ pendingDeletes' = Append(pendingDeletes,
                                [id |-> pendingCreates[i].id, wasLive |-> FALSE])
    /\ lastCalls' = <<>>
    /\ UNCHANGED <<srv, loader, remote, config, data, items, originalItems, tempFiles,
                   pendingFileUploads, isSaving, validationErrors, pc, uploadIter,
                   request, tempSeq, urlSeq>>

\* cms-table-row handleDelete on a pending-create row: splice it out
deletePendingCreate(i) ==
    /\ config.createDeleteEnabled
    /\ UserOp("deletePendingCreate")
    /\ pendingCreates' = [k \in 1..(Len(pendingCreates) - 1) |->
                            IF k < i THEN pendingCreates[k] ELSE pendingCreates[k + 1]]
    /\ lastCalls' = <<>>
    /\ UNCHANGED <<srv, loader, remote, config, data, items, originalItems, pendingDeletes, tempFiles,
                   pendingFileUploads, isSaving, validationErrors, pc, uploadIter,
                   request, tempSeq, urlSeq>>

\* a text cell bound to item.fieldData[slug]
editField(r, v) ==
    /\ UserOp("editField")
    /\ SetRow(r, [RowItem(r) EXCEPT !.fieldData["name"] = v])
    /\ lastCalls' = <<>>
    /\ UNCHANGED <<srv, loader, remote, config, data, originalItems, pendingDeletes, tempFiles,
                   pendingFileUploads, isSaving, validationErrors, pc, uploadIter,
                   request, tempSeq, urlSeq>>

\* the Live switch of the actions cell: item.isDraft = !checked
toggleDraft(r) ==
    /\ config.draftEnabled
    /\ UserOp("toggleDraft")
    /\ SetRow(r, [RowItem(r) EXCEPT !.isDraft = ~@])
    /\ lastCalls' = <<>>
    /\ UNCHANGED <<srv, loader, remote, config, data, originalItems, pendingDeletes, tempFiles,
                   pendingFileUploads, isSaving, validationErrors, pc, uploadIter,
                   request, tempSeq, urlSeq>>

\* The handlers are part of the context, so they are modelled for every
\* configuration (the stock tbody disables dragging unless the sort field is
\* a Number).
handleDndConsider(p) ==
    /\ UserOp("handleDndConsider")
    /\ items' = Permute(items, p)
    /\ lastCalls' = <<>>
    /\ UNCHANGED <<srv, loader, remote, config, data, originalItems, pendingCreates, pendingDeletes,
                   tempFiles, pendingFileUploads, isSaving, validationErrors, pc,
                   uploadIter, request, tempSeq, urlSeq>>

Renumber_zeroBased(list) ==
    [i \in 1..Len(list) |-> [list[i] EXCEPT !.fieldData[SortSlug] = Num(i - 1)]]

Renumber(list) ==
    [i \in 1..Len(list) |-> [list[i] EXCEPT !.fieldData[SortSlug] = Num(i)]]

handleDndFinalize(p) ==
    /\ UserOp("handleDndFinalize")
    /\ items' = IF config.sortType = "Number"
                THEN Renumber(Permute(items, p))
                ELSE Permute(items, p)
    /\ lastCalls' = <<>>
    /\ UNCHANGED <<srv, loader, remote, config, data, originalItems, pendingCreates, pendingDeletes,
                   tempFiles, pendingFileUploads, isSaving, validationErrors, pc,
                   uploadIter, request, tempSeq, urlSeq>>

(***************************************************************************)
(* File and image cells                                                    *)
(***************************************************************************)
SamePair(u, itemId, fieldSlug) == u.itemId = itemId /\ u.fieldSlug = fieldSlug

trackPendingFileUploadOf_append(list, upload) == Append(list, upload)

trackPendingFileUploadOf(list, upload) ==
    LET Keep(u) == ~SamePair(u, upload.itemId, upload.fieldSlug)
    IN Append(FilterSeq(list, Keep), upload)

removePendingFileUploadOf(list, itemId, fieldSlug) ==
    LET Keep(u) == ~SamePair(u, itemId, fieldSlug)
    IN FilterSeq(list, Keep)

\* FileInput handleUpload: queue the file and show its blob preview
pickFile(r) ==
    LET item == RowItem(r)
        blobUrl == BlobUrl(urlSeq + 1)
        upload == [itemId |-> item.id, fieldSlug |-> "doc", blobUrl |-> blobUrl]
    IN /\ ~HasUrl(item.fieldData["doc"])
       /\ UserOp("pickFile")
       /\ urlSeq' = urlSeq + 1
       /\ pendingFileUploads' = trackPendingFileUploadOf(pendingFileUploads, upload)
       /\ SetRow(r, [item EXCEPT !.fieldData["doc"] = FileObj(blobUrl)])
       /\ lastCalls' = <<>>
       /\ UNCHANGED <<srv, loader, remote, config, data, originalItems, pendingDeletes, tempFiles, isSaving,
                      validationErrors, pc, uploadIter, request, tempSeq>>

\* trackPendingFileUpload is part of the table context: a cell component that
\* lets the user swap the file waiting in a field calls it for a pair that is
\* already queued (the stock FileInput asks for a removal first).
trackPendingFileUpload(r) ==
    LET item == RowItem(r)
        blobUrl == BlobUrl(urlSeq + 1)
        upload == [itemId |-> item.id, fieldSlug |-> "doc", blobUrl |-> blobUrl]
    IN /\ IsBlob(item.fieldData["doc"])
       /\ UserOp("trackPendingFileUpload")
       /\ urlSeq' = urlSeq + 1
       /\ pendingFileUploads' = trackPendingFileUploadOf(pendingFileUploads, upload)
       /\ SetRow(r, [item EXCEPT !.fieldData["doc"] = FileObj(blobUrl)])
       /\ lastCalls' = <<>>
       /\ UNCHANGED <<srv, loader, remote, config, data, originalItems, pendingDeletes, tempFiles,
                      isSaving, validationErrors, pc, uploadIter, request, tempSeq>>

\* FileInput confirmDelete
removeFile(r) ==
    LET item == RowItem(r)
    IN /\ HasUrl(item.fieldData["doc"])
       /\ UserOp("removeFile")
       /\ pendingFileUploads' = removePendingFileUploadOf(pendingFileUploads, item.id, "doc")
       /\ SetRow(r, [item EXCEPT !.fieldData["doc"] = Null])
       /\ lastCalls' = <<>>
       /\ UNCHANGED <<srv, loader, remote, config, data, originalItems, pendingDeletes, tempFiles, isSaving,
                      validationErrors, pc, uploadIter, request, tempSeq, urlSeq>>

\* what the uploadPhoto / uploadFile server actions ask of Webflow
UploadCalls == <<[api |-> "assets.create", id |-> ""]>>

\* ImageInput handleUpload: posts to ?/uploadPhoto at once
pickImage(r, ok) ==
    LET item == RowItem(r)
    IN /\ ~HasUrl(item.fieldData["photo"])
       /\ UserOp("pickImage")
       /\ urlSeq' = urlSeq + 1
       /\ lastCalls' = UploadCalls
       /\ IF ok
          THEN /\ SetRow(r, [item EXCEPT !.fieldData["photo"] = FileObj(AssetUrl(urlSeq + 1))])
               /\ tempFiles' = tempFiles \cup {item.id}
          ELSE UNCHANGED <<items, pendingCreates, tempFiles>>
       /\ UNCHANGED <<srv, loader, remote, config, data, originalItems, pendingDeletes, pendingFileUploads,
                      isSaving, validationErrors, pc, uploadIter, request, tempSeq>>

(***************************************************************************)
(* Save bar                                                                *)
(***************************************************************************)
ButtonsEnabled == hasChanges /\ ~isSaving

handleCancel ==
    /\ ButtonsEnabled
    /\ UserOp("handleCancel")
    /\ items' = deepClone(originalItems)
    /\ pendingCreates' = <<>>
    /\ pendingDeletes' = <<>>
    /\ validationErrors' = <<>>
    /\ pendingFileUploads' = <<>>
    /\ tempFiles' = {}
    /\ lastCalls' = <<>>
    /\ UNCHANGED <<srv, loader, remote, config, data, originalItems, isSaving, pc, uploadIter, request,
                   tempSeq, urlSeq>>

EnhancePath_noValidation(its, orig, creates, deletes, uploads) ==
    IF ~hasChangesOf(its, orig, creates, deletes) THEN "noChanges"
    ELSE IF Len(uploads) > 0 THEN "uploads"
    ELSE "send"

\* the path the enhance callback takes in a given state
EnhancePath(its, orig, creates, deletes, uploads) ==
    IF ~hasChangesOf(its, orig, creates, deletes) THEN "noChanges"
    ELSE IF Len(validateItemsOf(its, creates)) > 0 THEN "invalid"
    ELSE IF Len(uploads) > 0 THEN "uploads"
    ELSE "send"

Enhance_idleWhileUploading(its, orig, creates, deletes, uploads) ==
    LET path == EnhancePath(its, orig, creates, deletes, uploads)
        errors == validateItemsOf(its, creates)
    IN /\ submitErrors' = IF path = "noChanges" THEN <<>> ELSE errors
       /\ validationErrors' = CASE path = "noChanges" -> validationErrors
                                [] path = "invalid" -> Messages(errors)
                                [] OTHER -> <<>>
       /\ isSaving' = IF path = "send" THEN TRUE ELSE isSaving
       /\ pc' = CASE path = "uploads" -> "uploading"
                  [] path = "send" -> "saving"
                  [] OTHER -> "idle"
       /\ uploadIter' = IF path = "uploads" THEN uploads ELSE <<>>
       /\ request' = IF path = "send"
                     THEN <<getPayloadOf(its, orig, creates, deletes)>>
                     ELSE NoRequest

\* the effects of one run of the enhance callback on everything but the lists
Enhance(its, orig, creates, deletes, uploads) ==
    LET path == EnhancePath(its, orig, creates, deletes, uploads)
        errors == validateItemsOf(its, creates)
    IN /\ submitErrors' = IF path = "noChanges" THEN <<>> ELSE errors
       /\ validationErrors' = CASE path = "noChanges" -> validationErrors
                                [] path = "invalid" -> Messages(errors)
                                [] OTHER -> <<>>
       /\ isSaving' = IF path \in {"uploads", "send"} THEN TRUE ELSE isSaving
       /\ pc' = CASE path = "uploads" -> "uploading"
                  [] path = "send" -> "saving"
                  [] OTHER -> "idle"
       /\ uploadIter' = IF path = "uploads" THEN uploads ELSE <<>>
       /\ request' = IF path = "send"
                     THEN <<getPayloadOf(its, orig, creates, deletes)>>
                     ELSE NoRequest

\* click on Save
submit ==
    /\ ButtonsEnabled
    /\ opCount < MaxOps
    /\ opCount' = opCount + 1
    /\ lastOp' = "submit"
    /\ Enhance(items, originalItems, pendingCreates, pendingDeletes, pendingFileUploads)
    /\ lastCalls' = <<>>
    /\ UNCHANGED <<srv, loader, remote, config, data, items, originalItems, pendingCreates, pendingDeletes,
                   tempFiles, pendingFileUploads, tempSeq, urlSeq>>

PatchUrl(list, upload, url) ==
    [i \in 1..Len(list) |->
        IF list[i].id = upload.itemId
        THEN [list[i] EXCEPT !.fieldData[upload.fieldSlug] = FileObj(url)]
        ELSE list[i]]

catchUploadError_keepsGoing ==
    /\ uploadIter' = Tail(uploadIter)
    /\ pc' = "uploading"
    /\ UNCHANGED <<isSaving, validationErrors>>

\* the throw of uploadPendingFiles() ends its loop and is caught by the save bar
catchUploadError ==
    /\ isSaving' = FALSE
    /\ validationErrors' = <<"Failed to upload">>
    /\ pc' = "idle"
    /\ uploadIter' = <<>>

\* one round of the loop of uploadPendingFiles(): the answer to one ?/uploadFile
uploadOne(ok) ==
    LET upload == Head(uploadIter)
        its == PatchUrl(items, upload, AssetUrl(urlSeq + 1))
        creates == PatchUrl(pendingCreates, upload, AssetUrl(urlSeq + 1))
    IN /\ pc = "uploading"
       /\ lastOp' = IF ok THEN "uploadOne" ELSE "uploadFailed"
       /\ lastCalls' = UploadCalls
       /\ IF ~ok
          THEN /\ catchUploadError
               /\ submitErrors' = <<>>
               /\ UNCHANGED <<items, pendingCreates, pendingFileUploads, request, urlSeq>>
          ELSE /\ items' = its
               /\ pendingCreates' = creates
               /\ urlSeq' = urlSeq + 1
               /\ IF Len(uploadIter) > 1
                  THEN /\ uploadIter' = Tail(uploadIter)
                       /\ submitErrors' = <<>>
                       /\ UNCHANGED <<pendingFileUploads, isSaving, validationErrors,
                                      pc, request>>
                  ELSE \* loop over: clear the queue and requestSubmit()
                       /\ pendingFileUploads' = <<>>
                       /\ Enhance(its, originalItems, creates, pendingDeletes, <<>>)
       /\ UNCHANGED <<srv, loader, remote, config, data, originalItems, pendingDeletes, tempFiles, opCount,
                      tempSeq>>

\* Webflow calls of the saveAll action for a payload, in order
SaveAllCalls(payload) ==
    LET U[i \in 0..Len(payload.updates)] ==
            IF i = 0 THEN <<>>
            ELSE LET u == payload.updates[i]
                 IN U[i - 1]
                    \o <<[api |-> IF u.wasLive THEN "updateItemLive" ELSE "updateItem",
                          id |-> u.item.id]>>
                    \o (IF ~u.wasLive /\ ~u.item.isDraft
                        THEN <<[api |-> "publishItem", id |-> u.item.id]>> ELSE <<>>)
        C[i \in 0..Len(payload.creates)] ==
            IF i = 0 THEN <<>>
            ELSE LET c == payload.creates[i]
                 IN C[i - 1]
                    \o <<[api |-> IF c.isDraft THEN "createItem" ELSE "createItemLive",
                          id |-> c.id]>>
                    \o (IF ~c.isDraft
                        THEN <<[api |-> "publishItem", id |-> c.id]>> ELSE <<>>)
        D[i \in 0..Len(payload.deletes)] ==
            IF i = 0 THEN <<>>
            ELSE LET d == payload.deletes[i]
                 IN D[i - 1]
                    \o (IF d.wasLive
                        THEN <<[api |-> "deleteItemLive", id |-> d.id]>> ELSE <<>>)
                    \o <<[api |-> "deleteItem", id |-> d.id]>>
    IN U[Len(payload.updates)] \o C[Len(payload.creates)] \o D[Len(payload.deletes)]

FieldSlugs == {config.fields[i].slug : i \in 1..Len(config.fields)}

\* config.sortField is set
SortFieldSlugs == IF config.sortType = "None" THEN {} ELSE {SortSlug}

updateFieldData_allKeys(item) == item.fieldData

\* the fieldData of an update: the configured fields and the sort field,
\* where the item has a value for them
updateFieldData(item) ==
    LET keys == {k \in FieldSlugs \cup SortFieldSlugs :
                    Get(item.fieldData, k) # Undefined}
    IN [k \in keys |-> item.fieldData[k]]

\* the part of a payload up to the given entries of its three lists
UpTo(payload, nu, nc, nd) ==
    [updates |-> SubSeq(payload.updates, 1, nu),
     creates |-> SubSeq(payload.creates, 1, nc),
     deletes |-> SubSeq(payload.deletes, 1, nd)]

\* of the calls of a saveAll run the one numbered failAt threw (none when 0)
Succeeded(k, failAt) == failAt = 0 \/ k < failAt

\* updateItem / updateItemLive: the keys sent replace the stored ones
Patched(stored, item) ==
    [stored EXCEPT
        !.fieldData = [k \in DOMAIN @ |->
                          IF k \in DOMAIN updateFieldData(item)
                          THEN item.fieldData[k] ELSE @[k]],
        !.isDraft = item.isDraft]

\* the collection after a saveAll run over the payload
AfterSave(stored, payload, failAt) ==
    LET nu == Len(payload.updates)
        nc == Len(payload.creates)
        UpdateCall(i) == Len(SaveAllCalls(UpTo(payload, i - 1, 0, 0))) + 1
        CreateCall(i) == Len(SaveAllCalls(UpTo(payload, nu, i - 1, 0))) + 1
        DeleteCall(i) == Len(SaveAllCalls(UpTo(payload, nu, nc, i)))
        Updated(j) ==
            {i \in 1..nu : /\ payload.updates[i].item.id = stored[j].id
                           /\ Succeeded(UpdateCall(i), failAt)}
        afterUpdates ==
            [j \in 1..Len(stored) |->
                IF Updated(j) = {} THEN stored[j]
                ELSE Patched(stored[j],
                             payload.updates[CHOOSE i \in Updated(j) : TRUE].item)]
        C[i \in 0..nc] ==
            IF i = 0 THEN afterUpdates
            ELSE IF Succeeded(CreateCall(i), failAt)
                 THEN Append(C[i - 1],
                             [id |-> "wf-" \o payload.creates[i].id,
                              fieldData |-> payload.creates[i].fieldData,
                              isDraft |-> payload.creates[i].isDraft,
                              isArchived |-> FALSE])
                 ELSE C[i - 1]
        Kept(x) ==
            ~\E i \in 1..Len(payload.deletes) :
                /\ payload.deletes[i].id = x.id
                /\ Succeeded(DeleteCall(i), failAt)
    IN FilterSeq(C[nc], Kept)

handleSaveComplete_noRebaseline ==
    /\ originalItems' = originalItems
    /\ pendingCreates' = <<>>
    /\ pendingDeletes' = <<>>
    /\ tempFiles' = {}
    /\ pendingFileUploads' = <<>>

handleSaveComplete ==
    /\ originalItems' = deepClone(items)
    /\ pendingCreates' = <<>>
    /\ pendingDeletes' = <<>>
    /\ tempFiles' = {}
    /\ pendingFileUploads' = <<>>

\* the answer to the saveAll post reaches the enhance callback
saveAllResponds(failAt) ==
    LET calls == SaveAllCalls(request[1])
    IN /\ pc = "saving"
       /\ failAt \in 0..Len(calls)
       /\ lastCalls' = IF failAt = 0 THEN calls ELSE SubSeq(calls, 1, failAt)
       /\ isSaving' = FALSE
       /\ pc' = IF failAt = 0 THEN "reloading" ELSE "idle"
       /\ request' = NoRequest
       /\ submitErrors' = <<>>
       /\ uploadIter' = <<>>
       /\ IF failAt = 0
          THEN \* handleSaveComplete
               /\ lastOp' = "handleSaveComplete"
               /\ handleSaveComplete
               /\ UNCHANGED validationErrors
          ELSE /\ lastOp' = "saveFailed"
               /\ validationErrors' = <<"Failed to save">>
               /\ UNCHANGED <<originalItems, pendingCreates, pendingDeletes, tempFiles,
                              pendingFileUploads>>
       /\ remote' = AfterSave(remote, request[1], failAt)
       /\ UNCHANGED <<srv, loader, config, data, items, opCount, tempSeq, urlSeq>>

\* the $effect on the data prop: update() has re-run the page's load
syncData(newData) ==
    /\ pc = "reloading"
    /\ pc' = "idle"
    /\ lastOp' = "syncData"
    /\ lastCalls' = <<>>
    /\ data' = newData
    /\ items' = deepClone(newData)
    /\ originalItems' = deepClone(newData)
    /\ pendingCreates' = <<>>
    /\ pendingDeletes' = <<>>
    /\ validationErrors' = <<>>
    /\ pendingFileUploads' = <<>>
    /\ tempFiles' = {}
    /\ submitErrors' = <<>>
    /\ UNCHANGED <<srv, loader, remote, config, isSaving, uploadIter, request, opCount, tempSeq, urlSeq>>

Next ==
    \/ handleAddItem
    \/ \E i \in 1..Len(items) : handleDeleteItem(i)
    \/ \E i \in 1..Len(pendingCreates) : deletePendingCreate(i)
    \/ \E r \in Rows, v \in {Str(""), Str("b")} : editField(r, v)
    \/ \E r \in Rows : toggleDraft(r)
    \/ \E p \in Orders(Len(items)) : handleDndConsider(p)
    \/ \E p \in Orders(Len(items)) : handleDndFinalize(p)
    \/ \E r \in Rows : pickFile(r)
    \/ \E r \in Rows : trackPendingFileUpload(r)
    \/ \E r \in Rows : removeFile(r)
    \/ \E r \in Rows, ok \in BOOLEAN : pickImage(r, ok)
    \/ handleCancel
    \/ submit
    \/ \E ok \in BOOLEAN : uploadOne(ok)
    \/ \E failAt \in 0..8 : saveAllResponds(failAt)
    \/ \E newData \in DataSets(config.sortType) : syncData(newData)

Spec == Init /\ [][Next]_vars

\* Every ?/uploadFile post and every saveAll post is answered in the end
\* (the fetch resolves or rejects): the steps that wait on the network are
\* taken when they stay possible.
SpecLive ==
    /\ Init
    /\ [][Next]_vars
    /\ WF_vars(\E ok \in BOOLEAN : uploadOne(ok))
    /\ WF_vars(\E failAt \in 0..8 : saveAllResponds(failAt))

(***************************************************************************)
(* validateItems() over field configurations and values of every kind      *)
(***************************************************************************)
Arr(a) == [t |-> "array", a |-> a]

\* validations objects: none, string lengths, the number range under the
\* keys validateItems reads, the number range under the keys the README
\* documents, and lengths together with a range
ValidationSets ==
    { Undefined,
      [NoValidations EXCEPT !.minLength = 2, !.maxLength = 4],
      [NoValidations EXCEPT !.minimum = Num(1), !.maximum = Num(10)],
      [NoValidations EXCEPT !.min = Num(1), !.max = Num(10)],
      [NoValidations EXCEPT !.minLength = 2, !.maxLength = 4,
                            !.minimum = Num(1), !.maximum = Num(10)] }

QtyFields ==
    [slug : {"qty"}, name : {"Qty"}, type : {"Number"},
     visible : BOOLEAN, editable : BOOLEAN, required : BOOLEAN,
     defaultValue : {Undefined}, validations : ValidationSets]

QtyValues ==
    { Undefined, Null, Str(""), Arr(<<>>), Arr(<<"r1">>),
      Str("a"), Str("abc"), Str("abcde"), Num(0), Num(5), Num(11) }

\* an item whose qty key is missing when the value is undefined
QtyItem(id, name, v) ==
    Item(id,
         IF v = Undefined THEN [name |-> name] ELSE [name |-> name, qty |-> v],
         FALSE, FALSE)

ClientAtRest ==
    /\ originalItems = items
    /\ pendingDeletes = <<>>
    /\ tempFiles = {}
    /\ pendingFileUploads = <<>>
    /\ isSaving = FALSE
    /\ validationErrors = <<>>
    /\ pc = "idle"
    /\ uploadIter = <<>>
    /\ request = NoRequest
    /\ submitErrors = <<>>
    /\ lastOp = "mount"
    /\ lastCalls = <<>>
    /\ opCount = 0
    /\ tempSeq = 0
    /\ urlSeq = 0

InitValidate ==
    /\ \E f \in QtyFields :
          config = [sortType |-> "None", draftEnabled |-> FALSE,
                    createDeleteEnabled |-> TRUE, fields |-> <<f, NameField>>]
    /\ \E v \in QtyValues :
          /\ data = <<QtyItem("a", Str("a"), v)>>
          /\ items = data
    /\ pendingCreates \in {<<>>, <<QtyItem("temp-1", Str(""), Num(5))>>}
    /\ ClientAtRest
    /\ srvPc = ServerOff
    /\ srvCalls = <<>>
    /\ srvResult = "none"
    /\ LoaderOff
    /\ remote = data

\* const errors = ctx.validateItems()
callValidateItems ==
    /\ lastOp = "mount"
    /\ lastOp' = "validateItems"
    /\ submitErrors' = validateItems
    /\ UNCHANGED <<srv, loader, remote, config, data, items, originalItems, pendingCreates,
                   pendingDeletes, tempFiles, pendingFileUploads, isSaving,
                   validationErrors, pc, uploadIter, request, lastCalls, opCount,
                   tempSeq, urlSeq>>

NextValidate == callValidateItems

SpecValidate == InitValidate /\ [][NextValidate]_vars

\* the same fields with the optional editable flag left out
FlaglessFields ==
    [slug : {"qty"}, name : {"Qty"}, type : {"Number"},
     visible : BOOLEAN, required : BOOLEAN,
     defaultValue : {Undefined}, validations : ValidationSets]

InitEditable ==
    /\ \E f \in QtyFields \cup FlaglessFields :
          config = [sortType |-> "None", draftEnabled |-> FALSE,
                    createDeleteEnabled |-> TRUE, fields |-> <<f, NameField>>]
    /\ \E v \in QtyValues :
          /\ data = <<QtyItem("a", Str("a"), v)>>
          /\ items = data
    /\ pendingCreates \in {<<>>, <<QtyItem("temp-1", Str(""), Num(5))>>}
    /\ ClientAtRest
    /\ srvPc = ServerOff
    /\ srvCalls = <<>>
    /\ srvResult = "none"
    /\ LoaderOff
    /\ remote = data

SpecEditable == InitEditable /\ [][NextValidate]_vars

(***************************************************************************)
(* Reordering: rows are dragged, the order is saved and the page loads the  *)
(* collection again with loadCmsItems.  A drag ends with handleDndFinalize; *)
(* the consider events before it are part of Spec.                          *)
(***************************************************************************)
Coalesce(v, d) == IF v \in {Undefined, Null} THEN d ELSE v

\* Number(val ?? 0) of a sort value
NumberOf(val) == Coalesce(val, Num(0)).n

\* const multiplier = direction === "desc" ? -1 : 1
multiplier ==
    IF Coalesce(Get(config, "direction"), Str("asc")) = Str("desc") THEN -1 ELSE 1

\* the comparator of items.sort for a Number sort field
compareItems(a, b) ==
    (NumberOf(a.fieldData[SortSlug]) - NumberOf(b.fieldData[SortSlug])) * multiplier

\* Array.prototype.sort with that comparator (a stable sort)
sortItems(list) ==
    LET F[i \in 0..Len(list)] ==
            IF i = 0 THEN <<>>
            ELSE LET prev == F[i - 1]
                     n == Cardinality({j \in 1..Len(prev) :
                                          compareItems(prev[j], list[i]) <= 0})
                 IN SubSeq(prev, 1, n) \o <<list[i]>> \o SubSeq(prev, n + 1, Len(prev))
    IN F[Len(list)]

\* loadCmsItems on what listItems answered
loadCmsItems(listed) ==
    IF config.sortType = "Number" THEN sortItems(listed) ELSE listed

ReorderConfigs ==
    [sortType : {"Number"},
     direction : {Str("asc"), Str("desc"), Undefined},
     draftEnabled : {FALSE},
     createDeleteEnabled : {TRUE},
     fields : {Fields}]

\* three live items with sort values of every kind: distinct, equal, gaps
Collections ==
    { [i \in 1..3 |->
          Item(<<"a", "b", "c">>[i],
               FieldData(Str("a"), Undefined, Undefined, Num(v[i])), FALSE, FALSE)] :
        v \in [1..3 -> 1..3] }

InitReorder ==
    /\ config \in ReorderConfigs
    /\ remote \in Collections
    /\ data = loadCmsItems(remote)
    /\ items = deepClone(data)
    /\ pendingCreates = <<>>
    /\ ClientAtRest
    /\ srvPc = ServerOff
    /\ srvCalls = <<>>
    /\ srvResult = "none"
    /\ LoaderOff

\* listItems answers the stored items in some order
NextReorder ==
    \/ \E p \in Orders(Len(items)) : handleDndFinalize(p)
    \/ submit
    \/ \E failAt \in 0..3 : saveAllResponds(failAt)
    \/ \E p \in Orders(Len(remote)) : syncData(loadCmsItems(Permute(remote, p)))

SpecReorder == InitReorder /\ [][NextReorder]_vars

(***************************************************************************)
(* Slug generation.  A string of the server model is Str of a sequence of   *)
(* characters; a character outside ASCII is written by its name.            *)
(***************************************************************************)
UpperChars == <<"A", "B", "C", "D", "E", "F", "G", "H", "I", "J", "K", "L", "M",
                "N", "O", "P", "Q", "R", "S", "T", "U", "V", "W", "X", "Y", "Z">>
LowerChars == <<"a", "b", "c", "d", "e", "f", "g", "h", "i", "j", "k", "l", "m",
                "n", "o", "p", "q", "r", "s", "t", "u", "v", "w", "x", "y", "z">>
Digits == {"0", "1", "2", "3", "4", "5", "6", "7", "8", "9"}

\* [a-z0-9]
AlphaNum == {LowerChars[i] : i \in 1..Len(LowerChars)} \cup Digits

\* String.prototype.toLowerCase
ToLowerChar(c) ==
    IF \E i \in 1..Len(UpperChars) : UpperChars[i] = c
    THEN LowerChars[CHOOSE i \in 1..Len(UpperChars) : UpperChars[i] = c]
    ELSE IF c = "E_acute" THEN "e_acute"
    ELSE IF c = "U_uml" THEN "u_uml"
    ELSE c

toLowerCase(str) == [i \in 1..Len(str) |-> ToLowerChar(str[i])]

ReplaceNonAlnum_each(str) ==
    [i \in 1..Len(str) |-> IF str[i] \in AlphaNum THEN str[i] ELSE "-"]

\* .replace(/[^a-z0-9]+/g, "-"): one hyphen for each run of other characters
ReplaceNonAlnum(str) ==
    LET F[i \in 0..Len(str)] ==
            IF i = 0 THEN <<>>
            ELSE IF str[i] \in AlphaNum THEN Append(F[i - 1], str[i])
            ELSE IF i > 1 /\ str[i - 1] \notin AlphaNum THEN F[i - 1]
            ELSE Append(F[i - 1], "-")
    IN F[Len(str)]

\* .replace(/(^-|-$)/g, ""): a hyphen at the start and a hyphen at the end
TrimHyphens(str) ==
    LET n == Len(str)
        lead == n >= 1 /\ str[1] = "-"
        trail == n >= 2 /\ str[n] = "-"
    IN SubSeq(str, IF lead THEN 2 ELSE 1, IF trail THEN n - 1 ELSE n)

generateSlug(name) == TrimHyphens(ReplaceNonAlnum(toLowerCase(name)))

\* JavaScript truthiness of a field value
Truthy(v) ==
    /\ v \notin {Undefined, Null}
    /\ v.t = "string" => Len(v.s) > 0
    /\ v.t = "number" => v.n # 0

\* `${value}`
TemplateText(v) ==
    IF v = Undefined THEN <<"u", "n", "d", "e", "f", "i", "n", "e", "d">>
    ELSE IF v = Null THEN <<"n", "u", "l", "l">>
    ELSE v.s

(***************************************************************************)
(* The saveAll server action.  One step is one awaited call of the Webflow  *)
(* client together with its outcome: "ok", "slug" (an Error whose message   *)
(* contains 'validation_error' or 'slug') or "other" (any other throw).     *)
(***************************************************************************)
\* Bound: number of entries (updates, creates and deletes) of one payload.
MaxEntries == 2

Outcomes == {"ok", "slug", "other"}

\* Math.random().toString(36).substring(2, 6): up to four characters
Suffixes == {<<"x", "7", "k", "2">>, <<"i">>}

KindField == [slug |-> "kind", name |-> "Kind", type |-> "PlainText",
              visible |-> FALSE, editable |-> FALSE, required |-> FALSE,
              defaultValue |-> Str(<<"n", "e", "w", "s">>),
              validations |-> NoValidations]
NoteField == [slug |-> "note", name |-> "Note", type |-> "PlainText",
              visible |-> FALSE, editable |-> FALSE, required |-> FALSE,
              defaultValue |-> Undefined, validations |-> NoValidations]

ServerConfigs ==
    [sortType : {"Number", "None"}, draftEnabled : {TRUE},
     createDeleteEnabled : {TRUE}, fields : {<<NameField, KindField, NoteField>>}]

CafeMunster == <<"C", "a", "f", "e_acute", " ", "M", "u_uml", "n", "s", "t", "e", "r", "!">>

\* items of the collection as the client sends them: the keys the page loaded
\* (slug and legacy are fields of the collection that are not configured)
StoredFieldData ==
    [a |-> [name |-> Str(<<"A", "n", "n">>), slug |-> Str(<<"a", "n", "n">>),
            legacy |-> Str(<<"v", "1">>), kind |-> Str(<<"o", "l", "d">>),
            note |-> Null, sort |-> Num(1)],
     b |-> [name |-> Str(<<"B", "o">>), sort |-> Num(2)]]

UpdateEntries ==
    {[item |-> Item("a", StoredFieldData["a"], d, FALSE), wasLive |-> w] :
        d \in BOOLEAN, w \in BOOLEAN}
    \cup {[item |-> Item("b", StoredFieldData["b"], FALSE, FALSE), wasLive |-> FALSE]}

\* field data of pending creates (handleAddItem fills every configured field)
NewFieldData(name) ==
    [name |-> Str(name), kind |-> Str(<<"n", "e", "w", "s">>), note |-> Str(<<>>),
     sort |-> Num(3)]

CreateEntries ==
    {Item("temp-1", NewFieldData(CafeMunster), d, d) : d \in BOOLEAN}
    \cup {Item("temp-1", NewFieldData(n), TRUE, TRUE) :
            n \in {<<"-", "-", "A", " ", " ", "b", "_", "-">>, <<"!", "!", "!">>, <<>>}}
    \cup {Item("temp-1",
                [name |-> Str(<<"a", "b">>), slug |-> Str(<<"m", "y", "-", "S", "l", "u", "g">>),
                 kind |-> Str(<<"m", "i", "n", "e">>)],
                FALSE, FALSE),
          Item("temp-1",
                [name |-> Str(<<"a", "b">>), slug |-> Str(<<>>)], TRUE, TRUE),
          Item("temp-2", NewFieldData(<<"X", "9">>), FALSE, FALSE)}

DeleteEntries == {[id |-> "c", wasLive |-> TRUE], [id |-> "d", wasLive |-> FALSE]}

EntryId(e) == IF "item" \in DOMAIN e THEN e.item.id ELSE e.id

\* the lists of n entries for n different items
EntryLists(S, n) ==
    {q \in [1..n -> S] : \A i, j \in 1..n : EntryId(q[i]) = EntryId(q[j]) => i = j}

Payloads ==
    UNION { [updates : EntryLists(UpdateEntries, n[1]),
             creates : EntryLists(CreateEntries, n[2]),
             deletes : EntryLists(DeleteEntries, n[3])] :
            n \in {m \in (0..MaxEntries) \X (0..MaxEntries) \X (0..MaxEntries) :
                      m[1] + m[2] + m[3] <= MaxEntries} }

HiddenDefaults ==
    {i \in 1..Len(config.fields) :
        ~config.fields[i].visible /\ config.fields[i].defaultValue # Undefined}

withHiddenDefaults_clientWins(fd) ==
    LET slugs == {config.fields[i].slug : i \in HiddenDefaults}
    IN [k \in DOMAIN fd \cup slugs |->
          IF k \in DOMAIN fd THEN fd[k]
          ELSE config.fields[CHOOSE i \in HiddenDefaults : config.fields[i].slug = k].defaultValue]

\* { ...item.fieldData } with the default of every hidden field written over it
withHiddenDefaults(fd) ==
    LET slugs == {config.fields[i].slug : i \in HiddenDefaults}
    IN [k \in DOMAIN fd \cup slugs |->
          IF k \in slugs
          THEN config.fields[CHOOSE i \in HiddenDefaults : config.fields[i].slug = k].defaultValue
          ELSE fd[k]]

\* fd with fd[key] = value
SetKey(fd, key, value) ==
    [k \in DOMAIN fd \cup {key} |-> IF k = key THEN value ELSE fd[k]]

\* if (!fieldData.slug && fieldData.name) fieldData.slug = ...
withSlug(fd) ==
    IF ~Truthy(Get(fd, "slug")) /\ Truthy(Get(fd, "name"))
    THEN SetKey(fd, "slug", Str(generateSlug(fd["name"].s)))
    ELSE fd

\* the fieldData of the first attempt of a create
createFieldData(item) == withSlug(withHiddenDefaults(item.fieldData))

\* const retrySlug = `${fieldData.slug}-${randomSuffix}`
retryFieldData(item, suffix) ==
    LET fd == createFieldData(item)
    IN SetKey(fd, "slug", Str(TemplateText(Get(fd, "slug")) \o <<"-">> \o suffix))

Done == Pos("done", 0, "none")

liveDeleteFirst_never(d) == FALSE

\* if (wasLive) await deleteItemLive(...)
liveDeleteFirst(d) == d.wasLive

DeletesFrom(payload, i) ==
    IF i <= Len(payload.deletes)
    THEN Pos("deletes", i,
             IF liveDeleteFirst(payload.deletes[i]) THEN "deleteLive" ELSE "delete")
    ELSE Done

CreatesFrom(payload, i) ==
    IF i <= Len(payload.creates) THEN Pos("creates", i, "create")
    ELSE DeletesFrom(payload, 1)

UpdatesFrom(payload, i) ==
    IF i <= Len(payload.updates) THEN Pos("updates", i, "update")
    ELSE CreatesFrom(payload, 1)

\* where the loops stand once the current entry is done
AfterEntry ==
    CASE srvPc.phase = "updates" -> UpdatesFrom(request[1], srvPc.i + 1)
      [] srvPc.phase = "creates" -> CreatesFrom(request[1], srvPc.i + 1)
      [] OTHER -> DeletesFrom(request[1], srvPc.i + 1)

NoBody == <<>>

\* the id Webflow gives to a created item
NewId == "wf-" \o ToString(Len(srvCalls) + 1)

\* the call is made and logged with its outcome
Call(api, id, body, outcome) ==
    srvCalls' = Append(srvCalls,
        [api |-> api, id |-> id, body |-> body, outcome |-> outcome,
         ret |-> IF outcome = "ok" /\ api \in {"createItem", "createItemLive"}
                 THEN NewId ELSE "",
         phase |-> srvPc.phase, i |-> srvPc.i, step |-> srvPc.step])

GoTo(pos) ==
    /\ srvPc' = pos
    /\ srvResult' = IF pos = Done THEN "success" ELSE "none"

Throw_skipsEntry ==
    /\ srvPc' = AfterEntry
    /\ srvResult' = IF AfterEntry = Done THEN "failure" ELSE "none"

\* the outer catch: return fail(500, { error: `Failed to save: ...` })
Throw ==
    /\ srvPc' = Done
    /\ srvResult' = "failure"

IsSlugCollision_any(outcome) == outcome # "ok"

\* errorMessage.includes("validation_error") || errorMessage.includes("slug")
IsSlugCollision(outcome) == outcome = "slug"

At(phase, step) == srvPc.phase = phase /\ srvPc.step = step

InitServer ==
    /\ config \in ServerConfigs
    /\ request \in {<<p>> : p \in Payloads}
    /\ srvPc = UpdatesFrom(request[1], 1)
    /\ srvCalls = <<>>
    /\ srvResult = IF UpdatesFrom(request[1], 1) = Done THEN "success" ELSE "none"
    /\ LoaderOff
    \* the page that posted the payload waits for the answer
    /\ data = <<>> /\ items = <<>> /\ originalItems = <<>>
    /\ remote = data
    /\ pendingCreates = <<>> /\ pendingDeletes = <<>>
    /\ tempFiles = {} /\ pendingFileUploads = <<>>
    /\ isSaving = TRUE /\ validationErrors = <<>>
    /\ pc = "saving" /\ uploadIter = <<>>
    /\ submitErrors = <<>> /\ lastOp = "submit" /\ lastCalls = <<>>
    /\ opCount = 0 /\ tempSeq = 0 /\ urlSeq = 0

publishAfterUpdate_whenNotDraft(u) == ~u.item.isDraft

\* if (!wasLive && !item.isDraft) await publishItem(...)
publishAfterUpdate(u) == ~u.wasLive /\ ~u.item.isDraft

srvUpdateItem(outcome) ==
    LET u == request[1].updates[srvPc.i]
    IN /\ At("updates", "update")
       /\ Call(IF u.wasLive THEN "updateItemLive" ELSE "updateItem", u.item.id,
               [fieldData |-> updateFieldData(u.item), isDraft |-> u.item.isDraft],
               outcome)
       /\ IF outcome # "ok" THEN Throw
          ELSE IF publishAfterUpdate(u)
               THEN GoTo(Pos("updates", srvPc.i, "publish"))
               ELSE GoTo(AfterEntry)
       /\ UNCHANGED <<client, loader, remote>>

srvPublishUpdated(outcome) ==
    LET u == request[1].updates[srvPc.i]
    IN /\ At("updates", "publish")
       /\ Call("publishItem", u.item.id, NoBody, outcome)
       /\ IF outcome # "ok" THEN Throw ELSE GoTo(AfterEntry)
       /\ UNCHANGED <<client, loader, remote>>

createApi(item) == IF item.isDraft THEN "createItem" ELSE "createItemLive"

\* the catch around the create and its publish
catchCreateError(outcome) ==
    IF IsSlugCollision(outcome)
    THEN GoTo(Pos("creates", srvPc.i, "retryCreate"))
    ELSE Throw

srvCreateItem(outcome) ==
    LET c == request[1].creates[srvPc.i]
    IN /\ At("creates", "create")
       /\ Call(createApi(c), c.id,
               [fieldData |-> createFieldData(c), isDraft |-> c.isDraft], outcome)
       /\ IF outcome # "ok" THEN catchCreateError(outcome)
          ELSE IF ~c.isDraft
               THEN GoTo(Pos("creates", srvPc.i, "publish"))
               ELSE GoTo(AfterEntry)
       /\ UNCHANGED <<client, loader, remote>>

\* newItem.id of the create that just succeeded
LastCreatedId == srvCalls[Len(srvCalls)].ret

srvPublishCreated(outcome) ==
    /\ At("creates", "publish")
    /\ Call("publishItem", LastCreatedId, NoBody, outcome)
    /\ IF outcome # "ok" THEN catchCreateError(outcome) ELSE GoTo(AfterEntry)
    /\ UNCHANGED <<client, loader, remote>>

srvRetryCreate(outcome, suffix) ==
    LET c == request[1].creates[srvPc.i]
    IN /\ At("creates", "retryCreate")
       /\ Call(createApi(c), c.id,
               [fieldData |-> retryFieldData(c, suffix), isDraft |-> c.isDraft], outcome)
       /\ IF outcome # "ok" THEN Throw
          ELSE IF ~c.isDraft
               THEN GoTo(Pos("creates", srvPc.i, "retryPublish"))
               ELSE GoTo(AfterEntry)
       /\ UNCHANGED <<client, loader, remote>>

srvPublishRetried(outcome) ==
    /\ At("creates", "retryPublish")
    /\ Call("publishItem", LastCreatedId, NoBody, outcome)
    /\ IF outcome # "ok" THEN Throw ELSE GoTo(AfterEntry)
    /\ UNCHANGED <<client, loader, remote>>

srvDeleteItemLive(outcome) ==
    LET d == request[1].deletes[srvPc.i]
    IN /\ At("deletes", "deleteLive")
       /\ Call("deleteItemLive", d.id, NoBody, outcome)
       /\ IF outcome # "ok" THEN Throw
          ELSE GoTo(Pos("deletes", srvPc.i, "delete"))
       /\ UNCHANGED <<client, loader, remote>>

srvDeleteItem(outcome) ==
    LET d == request[1].deletes[srvPc.i]
    IN /\ At("deletes", "delete")
       /\ Call("deleteItem", d.id, NoBody, outcome)
       /\ IF outcome # "ok" THEN Throw ELSE GoTo(AfterEntry)
       /\ UNCHANGED <<client, loader, remote>>

NextServer ==
    \/ \E o \in Outcomes : srvUpdateItem(o)
    \/ \E o \in Outcomes : srvPublishUpdated(o)
    \/ \E o \in Outcomes : srvCreateItem(o)
    \/ \E o \in Outcomes : srvPublishCreated(o)
    \/ \E o \in Outcomes, suffix \in Suffixes : srvRetryCreate(o, suffix)
    \/ \E o \in Outcomes : srvPublishRetried(o)
    \/ \E o \in Outcomes : srvDeleteItemLive(o)
    \/ \E o \in Outcomes : srvDeleteItem(o)

SpecServer == InitServer /\ [][NextServer]_vars

(***************************************************************************)
(* loadReferenceData: one listItems request per referenced collection, all  *)
(* in flight at once, each answered or failing at any time.                 *)
(***************************************************************************)
RefField(slug, type, validations) ==
    [slug |-> slug, name |-> slug, type |-> type,
     visible |-> TRUE, editable |-> TRUE, required |-> FALSE,
     defaultValue |-> Undefined, validations |-> validations]

RefTo(cid) == [NoValidations EXCEPT !.collectionId = cid]

\* tables whose fields refer to up to three collections, two fields to the
\* same one, with a field that lacks the collection id or the validations
\* object and a text field that has a collection id
LoadConfigs ==
    { [sortType |-> "None", draftEnabled |-> FALSE, createDeleteEnabled |-> TRUE,
       fields |-> <<NameField,
                    RefField("author", "Reference", RefTo(c1)),
                    RefField("tags", "MultiReference", RefTo(c2)),
                    RefField("city", "Reference", v3),
                    RefField("memo", "PlainText", RefTo(Str("c9")))>>] :
        c1 \in {Str("c1"), Str("c2"), Str(""), Undefined},
        c2 \in {Str("c1"), Str("c2")},
        v3 \in {RefTo(Str("c3")), Undefined} }

\* referenceFields.map(field => collectionId), made unique
collectionIds ==
    {config.fields[i].validations.collectionId.s :
        i \in {j \in 1..Len(config.fields) :
                 /\ config.fields[j].type \in {"Reference", "MultiReference"}
                 /\ config.fields[j].validations # Undefined
                 /\ Truthy(config.fields[j].validations.collectionId)}}

\* what listItems may answer for a collection
Responses(cid) ==
    {[total |-> 0], [items |-> <<>>, total |-> 0],
     [items |-> <<cid \o "-1">>, total |-> 1]}

InitLoad ==
    /\ config \in LoadConfigs
    /\ data = <<>> /\ items = <<>> /\ pendingCreates = <<>>
    /\ ClientAtRest
    /\ srvPc = ServerOff /\ srvCalls = <<>> /\ srvResult = "none"
    /\ refFetches = [cid \in collectionIds |-> [state |-> "pending"]]
    /\ referenceData = <<>>
    /\ refResult = NotReturned
    /\ remote = data

\* referenceData[collectionId] = response.items || []
listItemsResolves(cid, response) ==
    /\ refFetches[cid].state = "pending"
    /\ refFetches' = [refFetches EXCEPT ![cid] = [state |-> "ok", response |-> response]]
    /\ referenceData' = SetKey(referenceData, cid,
                                IF "items" \in DOMAIN response THEN response.items ELSE <<>>)
    /\ UNCHANGED <<client, srv, remote, refResult>>

catchFetchError_rejects(cid) ==
    /\ refResult' = [type |-> "error"]
    /\ UNCHANGED referenceData

\* catch (err) { referenceData[collectionId] = [] }
catchFetchError(cid) ==
    /\ referenceData' = SetKey(referenceData, cid, <<>>)
    /\ UNCHANGED refResult

listItemsFails(cid) ==
    /\ refFetches[cid].state = "pending"
    /\ refFetches' = [refFetches EXCEPT ![cid] = [state |-> "failed"]]
    /\ catchFetchError(cid)
    /\ UNCHANGED <<client, srv, remote>>

\* Promise.all has every promise fulfilled: return referenceData
loadReturns ==
    /\ refResult = NotReturned
    /\ \A cid \in DOMAIN refFetches : refFetches[cid].state # "pending"
    /\ refResult' = [type |-> "data", data |-> referenceData]
    /\ UNCHANGED <<client, srv, remote, refFetches, referenceData>>

NextLoad ==
    \/ \E cid \in DOMAIN refFetches :
          \E response \in Responses(cid) : listItemsResolves(cid, response)
    \/ \E cid \in DOMAIN refFetches : listItemsFails(cid)
    \/ loadReturns

SpecLoad == InitLoad /\ [][NextLoad]_vars

(***************************************************************************)
(* Properties                                                              *)
(***************************************************************************)
Ids(list) == [i \in 1..Len(list) |-> list[i].id]

\* a field value with the empty string read as "no value"
NoEmpty(v) == IF v = Str("") THEN Undefined ELSE v

\* the item has a baseline entry and differs from it in field data or draft flag
DiffersFromBaseline(item) ==
    \E k \in 1..Len(originalItems) :
        /\ originalItems[k].id = item.id
        /\ \/ \E s \in SlugSet :
                NoEmpty(item.fieldData[s]) # NoEmpty(originalItems[k].fieldData[s])
           \/ item.isDraft # originalItems[k].isDraft

NoPending == pendingCreates = <<>> /\ pendingDeletes = <<>>

\* C1: hasChanges() is false in the state right after handleSaveComplete()
\* and in the state right after handleCancel(), whatever local operations
\* came before.
C1_CleanAfterSaveOrCancel ==
    lastOp \in {"handleSaveComplete", "handleCancel"} => ~hasChanges

C1_Witness ==
    /\ lastOp = "handleSaveComplete"
    /\ originalItems # deepClone(data)
    /\ ~hasChanges

\* C2: hasChanges() is true exactly when there is a pending create or delete,
\* or the id sequence of items differs from that of originalItems, or some
\* item differs from the baseline item with its id in normalized field data
\* or in the draft flag.
C2_HasChangesIff ==
    hasChanges <=> \/ pendingCreates # <<>>
                   \/ pendingDeletes # <<>>
                   \/ Ids(items) # Ids(originalItems)
                   \/ \E i \in 1..Len(items) : DiffersFromBaseline(items[i])

C2_Witness ==
    /\ hasChanges
    /\ NoPending
    /\ Ids(items) = Ids(originalItems)
    /\ \E i \in 1..Len(items) : items[i].isDraft # originalItems[i].isDraft

\* items and originalItems are the same but for fields that hold the empty
\* string on one side and nothing on the other
OnlyEmptyStringDiffs ==
    /\ Ids(items) = Ids(originalItems)
    /\ \A i \in 1..Len(items) :
          /\ items[i].isDraft = originalItems[i].isDraft
          /\ items[i].isArchived = originalItems[i].isArchived
          /\ \A s \in SlugSet :
                \/ items[i].fieldData[s] = originalItems[i].fieldData[s]
                \/ /\ items[i].fieldData[s] \in {Str(""), Undefined}
                   /\ originalItems[i].fieldData[s] \in {Str(""), Undefined}

\* C3: when items differs from originalItems only by empty strings standing
\* where the other side has no value, and nothing is pending, hasChanges() is
\* false and getPayload().updates is empty.
C3_EmptyStringIsNoChange ==
    (OnlyEmptyStringDiffs /\ NoPending)
        => (~hasChanges /\ getPayload.updates = <<>>)

C3_Witness ==
    /\ OnlyEmptyStringDiffs
    /\ NoPending
    /\ items # originalItems
    /\ lastOp = "editField"

\* C4: getPayload().updates holds exactly the items that have a baseline
\* entry and differ from it, in the order of items, and each entry's wasLive
\* is (not isDraft and not isArchived) of the baseline entry, whatever the
\* item's current draft flag.
C4_UpdatesAreTheChangedItems ==
    LET ups == getPayload.updates
    IN /\ [i \in 1..Len(ups) |-> ups[i].item] = FilterSeq(items, DiffersFromBaseline)
       /\ \A i \in 1..Len(ups) :
             \E k \in 1..Len(originalItems) :
                /\ originalItems[k].id = ups[i].item.id
                /\ ups[i].wasLive = (~originalItems[k].isDraft
                                       /\ ~originalItems[k].isArchived)

C4_Witness ==
    \E i \in 1..Len(getPayload.updates) :
        /\ getPayload.updates[i].wasLive
        /\ getPayload.updates[i].item.isDraft

LocalOps == {"handleAddItem", "handleDeleteItem", "deletePendingCreate",
             "editField", "toggleDraft", "handleDndConsider",
             "handleDndFinalize", "pickFile", "trackPendingFileUpload",
             "removeFile", "pickImage",
             "handleCancel"}

\* C5: no user operation before the save submission (add, delete, edit, pick
\* an image or a file, toggle draft, reorder) causes a request to the Webflow
\* API.
C5_NothingSentBeforeSave ==
    lastOp \in LocalOps => lastCalls = <<>>

\* C6: when validateItems() returns errors at submit time, no saveAll request
\* is submitted, isSaving is not set, and validationErrors becomes the
\* messages of the returned errors.
C6_ValidationBlocksSave ==
    [][ /\ (lastOp' = "submit" /\ validateItems # <<>>)
            => /\ request' = NoRequest
               /\ pc' = "idle"
               /\ ~isSaving'
               /\ validationErrors' = Messages(validateItems)
        /\ (lastOp' \in {"submit", "uploadOne"} /\ submitErrors' # <<>>)
            => /\ request' = NoRequest
               /\ pc' = "idle"
               /\ isSaving' = isSaving
               /\ validationErrors' = Messages(submitErrors')
      ]_vars

C6_Witness ==
    /\ lastOp = "submit"
    /\ submitErrors # <<>>
    /\ validationErrors = Messages(submitErrors)
    /\ request = NoRequest
    /\ ~isSaving

NoBlobIn(payload) ==
    /\ \A i \in 1..Len(payload.updates) : \A s \in SlugSet :
          ~IsBlob(payload.updates[i].item.fieldData[s])
    /\ \A i \in 1..Len(payload.creates) : \A s \in SlugSet :
          ~IsBlob(payload.creates[i].fieldData[s])

JustSubmitted == lastOp \in {"submit", "uploadOne"} /\ pc = "saving"

\* C7: a saveAll request is never submitted while pendingFileUploads is
\* non-empty, and the payload submitted after uploadPendingFiles() succeeded
\* carries the uploaded URL, not the blob preview URL, for every field that
\* had a queued upload.
C7_UploadsResolvedBeforeSubmit ==
    JustSubmitted =>
        /\ pendingFileUploads = <<>>
        /\ lastOp = "uploadOne" => NoBlobIn(request[1])

\* C8: handleDeleteItem(item) removes the item with that id from items,
\* appends exactly one tombstone {id, wasLive} to pendingDeletes, leaves
\* originalItems and pendingCreates unchanged and calls no remote API.
C8_DeleteItemFrame ==
    [][ lastOp' = "handleDeleteItem" =>
          \E i \in 1..Len(items) :
             /\ \A j \in 1..Len(items') : items'[j].id # items[i].id
             /\ Len(items') = Len(items) - 1
             /\ \A j \in 1..Len(items) :
                   j # i => \E k \in 1..Len(items') : items'[k] = items[j]
             /\ Len(pendingDeletes') = Len(pendingDeletes) + 1
             /\ SubSeq(pendingDeletes', 1, Len(pendingDeletes)) = pendingDeletes
             /\ pendingDeletes'[Len(pendingDeletes')].id = items[i].id
             /\ pendingDeletes'[Len(pendingDeletes')].wasLive \in BOOLEAN
             /\ originalItems' = originalItems
             /\ pendingCreates' = pendingCreates
             /\ lastCalls' = <<>>
      ]_vars

C8_Witness ==
    /\ lastOp = "handleDeleteItem"
    /\ Len(pendingDeletes) = 1
    /\ Len(items) = Len(originalItems) - 1

IsNumber(v) == v.t = "number"

\* C9: with a Number sort field, handleAddItem() appends one pending create
\* whose sort value is strictly greater than the sort value of every item of
\* items and of pendingCreates at the time of the call.
C9_AddItemSortsLast ==
    [][ (lastOp' = "handleAddItem" /\ config.sortType = "Number") =>
          LET new == pendingCreates'[Len(pendingCreates')]
              all == items \o pendingCreates
          IN /\ Len(pendingCreates') = Len(pendingCreates) + 1
             /\ SubSeq(pendingCreates', 1, Len(pendingCreates)) = pendingCreates
             /\ IsNumber(new.fieldData[SortSlug])
             /\ \A i \in 1..Len(all) :
                   IsNumber(all[i].fieldData[SortSlug])
                      => new.fieldData[SortSlug].n > all[i].fieldData[SortSlug].n
      ]_vars

C9_Witness ==
    /\ lastOp = "handleAddItem"
    /\ config.sortType = "Number"
    /\ Len(pendingCreates) = 2
    /\ Len(items) > 0

\* C10: on drag finalize with a Number sort field every item of items has
\* its sort value set to its 1-based position in the new order; with a
\* DateTime sort field or none, drag finalize changes no item's field data.
C10_FinalizeRenumbers ==
    [][ lastOp' = "handleDndFinalize" =>
          /\ Len(items') = Len(items)
          /\ \A j \in 1..Len(items) : \E k \in 1..Len(items') : items'[k].id = items[j].id
          /\ IF config.sortType = "Number"
             THEN \A k \in 1..Len(items') : items'[k].fieldData[SortSlug] = Num(k)
             ELSE \A k \in 1..Len(items') :
                     \E j \in 1..Len(items) : items'[k] = items[j]
      ]_vars

C10_Witness ==
    /\ lastOp = "handleDndFinalize"
    /\ config.sortType = "Number"
    /\ Len(items) = 2
    /\ Ids(items) # Ids(originalItems)
    /\ \A k \in 1..Len(items) : items[k].fieldData[SortSlug] = Num(k)

\* no two entries of the queue are for the same (itemId, fieldSlug) pair
OnePerPair(queue) ==
    \A i, j \in 1..Len(queue) :
        SamePair(queue[i], queue[j].itemId, queue[j].fieldSlug) => i = j

\* the entries of the queue that are for another pair, in their order
OtherPairs(queue, itemId, fieldSlug) ==
    LET Other(u) == u.itemId # itemId \/ u.fieldSlug # fieldSlug
    IN FilterSeq(queue, Other)

\* C11: pendingFileUploads never holds two entries for one (itemId,
\* fieldSlug) pair; queueing a file for a pair puts the new entry last and
\* drops the entry the pair had, keeping all others; removing the file of a
\* pair drops that pair's entry and no other.
C11_OnePendingUploadPerField ==
    [][ /\ OnePerPair(pendingFileUploads')
        /\ lastOp' \in {"pickFile", "trackPendingFileUpload"} =>
              LET new == pendingFileUploads'[Len(pendingFileUploads')]
              IN /\ Len(pendingFileUploads') > 0
                 /\ IsBlob(FileObj(new.blobUrl))
                 /\ pendingFileUploads' =
                       Append(OtherPairs(pendingFileUploads, new.itemId, new.fieldSlug), new)
        /\ lastOp' = "removeFile" =>
              \E r \in Rows :
                 /\ HasUrl(RowItem(r).fieldData["doc"])
                 /\ pendingFileUploads' =
                       OtherPairs(pendingFileUploads, RowItem(r).id, "doc")
                 /\ Len(pendingFileUploads') >= Len(pendingFileUploads) - 1
      ]_vars

C11_Witness ==
    /\ lastOp = "trackPendingFileUpload"
    /\ Len(pendingFileUploads) = 2
    /\ pendingFileUploads[2].itemId = "a"
    /\ pendingFileUploads[2].blobUrl = BlobUrl(3)

\* C12: uploadPendingFiles() walks the queue it was started with from the
\* head, one upload per step, writing the uploaded URL into the item of the
\* entry it just uploaded; when an upload fails the walk ends there (no later
\* entry is uploaded), validationErrors holds a message, isSaving is false
\* and no saveAll request is submitted.
C12_UploadFailureAborts ==
    [][ /\ (pc # "uploading" /\ pc' = "uploading") =>
              (uploadIter' = pendingFileUploads /\ uploadIter' # <<>>)
        /\ lastOp' \in {"uploadOne", "uploadFailed"} =>
              (pc = "uploading" /\ uploadIter # <<>> /\ Len(lastCalls') = 1)
        /\ lastOp' = "uploadOne" =>
              LET upload == Head(uploadIter)
              IN /\ \A i \in 1..Len(items') :
                       items'[i].id = upload.itemId =>
                          (HasUrl(items'[i].fieldData[upload.fieldSlug])
                             /\ ~IsBlob(items'[i].fieldData[upload.fieldSlug]))
                 /\ Len(uploadIter) > 1 =>
                       (pc' = "uploading" /\ uploadIter' = Tail(uploadIter))
        /\ lastOp' = "uploadFailed" =>
              /\ pc' = "idle"
              /\ uploadIter' = <<>>
              /\ ~isSaving'
              /\ Len(validationErrors') > 0
              /\ request' = NoRequest
              /\ items' = items
              /\ pendingCreates' = pendingCreates
      ]_vars

\* the first of two queued uploads has failed
C12_Witness ==
    /\ lastOp = "uploadFailed"
    /\ Len(pendingFileUploads) = 2
    /\ IsBlob(items[1].fieldData["doc"])
    /\ IsBlob(items[2].fieldData["doc"])
    /\ ~isSaving
    /\ validationErrors # <<>>

\* the errors validateItems() returned for one field of one item
ErrorsFor(item, field) ==
    LET Mine(e) == e.itemId = item.id /\ e.fieldName = field.name
    IN FilterSeq(submitErrors, Mine)

Validated == lastOp = "validateItems"

\* C13: for a required, visible, editable field whose value is undefined,
\* null, the empty string or an empty array, validateItems() returns exactly
\* one error for that field of that item, the "is required" one, and hence
\* no length or range error.
C13_RequiredEmptyOneError ==
    Validated =>
        \A i \in 1..Len(items \o pendingCreates) :
          \A k \in 1..Len(config.fields) :
            LET item == (items \o pendingCreates)[i]
                field == config.fields[k]
            IN (field.required /\ field.visible /\ field.editable
                  /\ Get(item.fieldData, field.slug)
                        \in {Undefined, Null, Str(""), Arr(<<>>)})
                 => /\ Len(ErrorsFor(item, field)) = 1
                    /\ ErrorsFor(item, field)[1].message = "is required"

\* a required field with lengths and a range configured holds an empty array
C13_Witness ==
    /\ Validated
    /\ config.fields[1].required /\ config.fields[1].visible /\ config.fields[1].editable
    /\ config.fields[1].validations # Undefined
    /\ config.fields[1].validations.minLength = 2
    /\ config.fields[1].validations.minimum = Num(1)
    /\ Get(items[1].fieldData, "qty") = Arr(<<>>)
    /\ Len(submitErrors) = 2

\* C14: for a visible, editable field whose validations give the range
\* under the documented keys min and max, validateItems() returns an error
\* for every item whose numeric value is below min or above max.
C14_DocumentedRangeKeys ==
    Validated =>
        \A i \in 1..Len(items \o pendingCreates) :
          \A k \in 1..Len(config.fields) :
            LET item == (items \o pendingCreates)[i]
                field == config.fields[k]
                value == Get(item.fieldData, field.slug)
                val == field.validations
            IN (field.visible /\ field.editable /\ val # Undefined
                  /\ val.min # Undefined /\ val.max # Undefined
                  /\ value.t = "number"
                  /\ (value.n < val.min.n \/ value.n > val.max.n))
                 => Len(ErrorsFor(item, field)) > 0

\* the calls saveAll has made for entry i of a list of the payload
CallsFor(phase, i) ==
    LET Mine(c) == c.phase = phase /\ c.i = i
    IN FilterSeq(srvCalls, Mine)

ApiIds(calls) == [k \in 1..Len(calls) |-> <<calls[k].api, calls[k].id>>]

IsPrefix(p, q) == Len(p) <= Len(q) /\ SubSeq(q, 1, Len(p)) = p

AllOk(calls) == \A k \in 1..Len(calls) : calls[k].outcome = "ok"

\* saveAll has begun entry i and every call for it went through, and
\* saveAll is not between two calls of the entry
EntryThrough(phase, i) ==
    /\ Len(CallsFor(phase, i)) > 0
    /\ AllOk(CallsFor(phase, i))
    /\ ~(srvPc.phase = phase /\ srvPc.i = i)

\* C15: the calls for an update entry are the live update when wasLive and
\* the draft update otherwise, followed by one publish of the item if and
\* only if wasLive is false and the item is not a draft; nothing else is
\* called for the entry, and a call is made only after the one before it
\* succeeded.
C15_UpdateThenPublish ==
    \A i \in 1..Len(request[1].updates) :
        LET u == request[1].updates[i]
            calls == CallsFor("updates", i)
            expected ==
                <<<<IF u.wasLive THEN "updateItemLive" ELSE "updateItem", u.item.id>>>>
                \o (IF ~u.wasLive /\ ~u.item.isDraft
                    THEN <<<<"publishItem", u.item.id>>>> ELSE <<>>)
        IN /\ IsPrefix(ApiIds(calls), expected)
           /\ AllOk(SubSeq(calls, 1, Len(calls) - 1))
           /\ EntryThrough("updates", i) => ApiIds(calls) = expected

\* a live item is updated, then a draft goes live
C15_Witness ==
    /\ srvResult = "success"
    /\ ApiIds(srvCalls) = << <<"updateItemLive", "a">>, <<"updateItem", "b">>,
                             <<"publishItem", "b">> >>

ConfiguredSlugs ==
    {config.fields[j].slug : j \in 1..Len(config.fields)}
        \cup (IF config.sortType = "None" THEN {} ELSE {SortSlug})

IsUpdateCall(c) == c.api \in {"updateItem", "updateItemLive"}

\* C16: the fieldData of every update call has only configured slugs (the
\* fields and the sort field) as keys, each with the value of the client's
\* item, and has every configured slug the client's item has a value for.
C16_UpdateSendsConfiguredOnly ==
    \A k \in 1..Len(srvCalls) :
        IsUpdateCall(srvCalls[k]) =>
            LET sent == srvCalls[k].body.fieldData
                mine == request[1].updates[srvCalls[k].i].item.fieldData
            IN /\ DOMAIN sent \subseteq ConfiguredSlugs
               /\ \A key \in DOMAIN sent :
                     key \in DOMAIN mine /\ sent[key] = mine[key]
               /\ \A key \in ConfiguredSlugs \cap DOMAIN mine : key \in DOMAIN sent

\* an item with unconfigured keys is updated by a table without sort field
C16_Witness ==
    /\ config.sortType = "None"
    /\ \E k \in 1..Len(srvCalls) :
          /\ IsUpdateCall(srvCalls[k])
          /\ {"legacy", "slug", "sort"}
                \subseteq DOMAIN request[1].updates[srvCalls[k].i].item.fieldData
          /\ DOMAIN srvCalls[k].body.fieldData = {"name", "kind", "note"}

IsCreateCall(c) == c.api \in {"createItem", "createItemLive"}

\* slugs of the hidden fields that have a default value
HiddenDefaultSlugs ==
    {config.fields[j].slug : j \in {n \in 1..Len(config.fields) :
        ~config.fields[n].visible /\ config.fields[n].defaultValue # Undefined}}

DefaultOf(slug) ==
    config.fields[CHOOSE j \in 1..Len(config.fields) :
                      config.fields[j].slug = slug].defaultValue

\* C17: every create call is create-draft when the entry's isDraft is true
\* and create-live otherwise; its fieldData is the client's with every hidden
\* field that has a default set to that default (the slug key aside, see
\* C18 and C19); a successful create-live is followed at once by a publish
\* of the created item, and a publish never follows anything else.
C17_CreateWithHiddenDefaults ==
    \A k \in 1..Len(srvCalls) :
        LET call == srvCalls[k]
        IN /\ IsCreateCall(call) =>
                LET c == request[1].creates[call.i]
                    sent == call.body.fieldData
                IN /\ call.api = (IF c.isDraft THEN "createItem" ELSE "createItemLive")
                   /\ call.body.isDraft = c.isDraft
                   /\ DOMAIN sent \ {"slug"}
                        = (DOMAIN c.fieldData \cup HiddenDefaultSlugs) \ {"slug"}
                   /\ \A key \in DOMAIN sent \ {"slug"} :
                        sent[key] = IF key \in HiddenDefaultSlugs
                                    THEN DefaultOf(key) ELSE c.fieldData[key]
                   /\ (call.api = "createItemLive" /\ call.outcome = "ok") =>
                        IF k < Len(srvCalls)
                        THEN srvCalls[k + 1].api = "publishItem"
                               /\ srvCalls[k + 1].id = call.ret
                        ELSE srvPc.phase = "creates" /\ srvPc.i = call.i
                               /\ srvPc.step \in {"publish", "retryPublish"}
                   /\ (call.api = "createItem" /\ k < Len(srvCalls)) =>
                        srvCalls[k + 1].api # "publishItem"
           /\ (call.phase = "creates" /\ call.api = "publishItem") =>
                /\ k > 1
                /\ srvCalls[k - 1].api = "createItemLive"
                /\ srvCalls[k - 1].outcome = "ok"
                /\ srvCalls[k - 1].ret = call.id

\* a live create whose client value of a hidden field gives way to the default
C17_Witness ==
    /\ srvResult = "success"
    /\ Len(srvCalls) = 2
    /\ srvCalls[1].api = "createItemLive"
    /\ Get(request[1].creates[1].fieldData, "kind") = Str(<<"m", "i", "n", "e">>)
    /\ srvCalls[1].body.fieldData["kind"] = Str(<<"n", "e", "w", "s">>)
    /\ srvCalls[2].api = "publishItem"
    /\ srvCalls[2].id = srvCalls[1].ret

\* the lowercased name with every run of characters outside a-z0-9 between
\* two kept characters turned into one hyphen and the other runs dropped
ExpectedSlug(name) ==
    LET low == toLowerCase(name)
        E[i \in 0..Len(low)] ==
            IF i = 0 THEN <<>>
            ELSE IF low[i] \notin AlphaNum THEN E[i - 1]
            ELSE IF E[i - 1] # <<>> /\ low[i - 1] \notin AlphaNum
                 THEN E[i - 1] \o <<"-", low[i]>>
                 ELSE Append(E[i - 1], low[i])
    IN E[Len(low)]

WellFormedSlug(str) ==
    /\ \A i \in 1..Len(str) : str[i] \in AlphaNum \cup {"-"}
    /\ \A i \in 1..(Len(str) - 1) : ~(str[i] = "-" /\ str[i + 1] = "-")
    /\ Len(str) > 0 => (str[1] # "-" /\ str[Len(str)] # "-")

\* C18: the first create call of an entry without slug and with a non-empty
\* name carries the slug derived from the name (lowercase, each run of
\* characters outside a-z0-9 one hyphen, no hyphen at either end), which is
\* made of a-z, 0-9 and single hyphens only; 'Cafe Munster!' written with
\* e-acute and u-umlaut gives 'caf-m-nster'; a slug the client supplied is
\* sent as it is.
C18_SlugGeneration ==
    /\ generateSlug(CafeMunster)
          = <<"c", "a", "f", "-", "m", "-", "n", "s", "t", "e", "r">>
    /\ \A k \in 1..Len(srvCalls) :
          (IsCreateCall(srvCalls[k]) /\ srvCalls[k].step = "create") =>
             LET c == request[1].creates[srvCalls[k].i]
                 slug == Get(c.fieldData, "slug")
                 name == Get(c.fieldData, "name")
                 sent == Get(srvCalls[k].body.fieldData, "slug")
             IN /\ (slug # Undefined /\ slug.s # <<>>) => sent = slug
                /\ (slug \in {Undefined, Str(<<>>)} /\ name # Undefined /\ name.s # <<>>) =>
                      /\ sent = Str(ExpectedSlug(name.s))
                      /\ WellFormedSlug(sent.s)

\* a name with hyphens, spaces and an underscore at its ends and in between
C18_Witness ==
    \E k \in 1..Len(srvCalls) :
        /\ srvCalls[k].step = "create"
        /\ Get(request[1].creates[srvCalls[k].i].fieldData, "name")
              = Str(<<"-", "-", "A", " ", " ", "b", "_", "-">>)
        /\ srvCalls[k].body.fieldData["slug"] = Str(<<"a", "-", "b">>)

\* the call is the last one made and the run has ended in failure
EndsRun(k) == k = Len(srvCalls) /\ srvPc = Done /\ srvResult = "failure"

\* C19: a first create attempt that fails with a slug-collision error is
\* followed by one more attempt of the same create whose slug is the first
\* attempt's slug, a hyphen and a random suffix; a failure of that second
\* attempt, and a failure of the first attempt with any other error, ends
\* the run in failure with no further call; no entry gets a third attempt.
C19_SlugCollisionRetriedOnce ==
    /\ \A k \in 1..Len(srvCalls) :
          LET call == srvCalls[k]
          IN IsCreateCall(call) =>
              /\ (call.step = "create" /\ call.outcome = "slug") =>
                    IF k = Len(srvCalls)
                    THEN srvPc = Pos("creates", call.i, "retryCreate")
                           /\ srvResult = "none"
                    ELSE LET retry == srvCalls[k + 1]
                         IN /\ retry.step = "retryCreate"
                            /\ retry.api = call.api /\ retry.i = call.i
                            /\ \E suffix \in Suffixes :
                                  retry.body.fieldData["slug"] =
                                    Str(TemplateText(Get(call.body.fieldData, "slug"))
                                          \o <<"-">> \o suffix)
              /\ (call.step = "create" /\ call.outcome = "other") => EndsRun(k)
              /\ (call.step = "retryCreate" /\ call.outcome # "ok") => EndsRun(k)
    /\ \A i \in 1..Len(request[1].creates) :
          LET Retry(c) == c.step = "retryCreate"
              First(c) == c.step = "create"
          IN /\ Len(FilterSeq(CallsFor("creates", i), Retry)) <= 1
             /\ Len(FilterSeq(CallsFor("creates", i), First)) <= 1

\* the first attempt collided, the second went through
C19_Witness ==
    /\ srvResult = "success"
    /\ Len(srvCalls) = 3
    /\ srvCalls[1].step = "create" /\ srvCalls[1].outcome = "slug"
    /\ srvCalls[2].step = "retryCreate" /\ srvCalls[2].outcome = "ok"
    /\ srvCalls[2].body.fieldData["slug"]
          = Str(<<"x", "9", "-", "x", "7", "k", "2">>)
    /\ srvCalls[3].api = "publishItem"

\* C20: the calls for a delete tombstone are a live delete of the id when
\* wasLive is true, then a draft delete of the id; with wasLive false the
\* draft delete is the only call; a call is made only after the one before
\* it succeeded.
C20_LiveDeleteThenDraftDelete ==
    \A i \in 1..Len(request[1].deletes) :
        LET d == request[1].deletes[i]
            calls == CallsFor("deletes", i)
            expected ==
                (IF d.wasLive THEN <<<<"deleteItemLive", d.id>>>> ELSE <<>>)
                \o <<<<"deleteItem", d.id>>>>
        IN /\ IsPrefix(ApiIds(calls), expected)
           /\ AllOk(SubSeq(calls, 1, Len(calls) - 1))
           /\ EntryThrough("deletes", i) => ApiIds(calls) = expected

C20_Witness ==
    /\ srvResult = "success"
    /\ ApiIds(srvCalls) = << <<"deleteItemLive", "c">>, <<"deleteItem", "c">>,
                             <<"deleteItem", "d">> >>

\* the failure of the call is taken up by the catch around a create
HandledByRetry(call) ==
    /\ call.phase = "creates"
    /\ call.step \in {"create", "publish"}
    /\ call.outcome = "slug"

\* C21: a call that fails with an error the slug retry does not take up is
\* the last call of the run (no call for the remaining entries and none that
\* undoes an earlier one), and the run returns the one failure result, never
\* success; a run returns failure only in that way.
C21_FailureAbortsBatch ==
    /\ \A k \in 1..Len(srvCalls) :
          (srvCalls[k].outcome # "ok" /\ ~HandledByRetry(srvCalls[k])) => EndsRun(k)
    /\ srvResult = "failure" =>
          (Len(srvCalls) > 0 /\ srvCalls[Len(srvCalls)].outcome # "ok")
    /\ srvResult = "success" =>
          \A k \in 1..Len(srvCalls) :
             srvCalls[k].outcome = "ok" \/ HandledByRetry(srvCalls[k])
    /\ srvResult # "none" <=> srvPc = Done

\* the second call failed after the first went through, with entries left
C21_Witness ==
    /\ srvResult = "failure"
    /\ Len(srvCalls) = 2
    /\ srvCalls[1].outcome = "ok"
    /\ srvCalls[1].api = "updateItemLive"
    /\ srvCalls[2].phase = "updates" /\ srvCalls[2].i = 2
    /\ srvCalls[2].outcome = "other"

\* C27: within one run, no entry of creates has two create calls that
\* succeeded.
C27_AtMostOneSuccessfulCreate ==
    \A i \in 1..Len(request[1].creates) :
        LET Created(c) == IsCreateCall(c) /\ c.outcome = "ok"
        IN Len(FilterSeq(CallsFor("creates", i), Created)) <= 1

\* C22: when loadReferenceData returns, it returns data and not an error;
\* the data has one entry for every collection some Reference or
\* MultiReference field refers to and no other entry; the entry of a
\* collection whose request failed is the empty list and the entry of every
\* other collection is the items its request answered (the empty list when
\* the answer has none), in whatever order the requests came back.
C22_ReferenceLoadJoins ==
    /\ refResult.type # "error"
    /\ refResult.type = "data" =>
          /\ DOMAIN refResult.data = DOMAIN refFetches
          /\ DOMAIN refFetches =
                {config.fields[i].validations.collectionId.s :
                    i \in {j \in 1..Len(config.fields) :
                             /\ config.fields[j].type \in {"Reference", "MultiReference"}
                             /\ config.fields[j].validations # Undefined
                             /\ config.fields[j].validations.collectionId
                                   \notin {Undefined, Str("")}}}
          /\ \A cid \in DOMAIN refFetches :
                /\ refFetches[cid].state \in {"ok", "failed"}
                /\ refFetches[cid].state = "failed" => refResult.data[cid] = <<>>
                /\ refFetches[cid].state = "ok" =>
                      refResult.data[cid] =
                        (IF "items" \in DOMAIN refFetches[cid].response
                         THEN refFetches[cid].response.items ELSE <<>>)

\* three collections, one request failed, one answered items
C22_Witness ==
    /\ refResult.type = "data"
    /\ DOMAIN refFetches = {"c1", "c2", "c3"}
    /\ refFetches["c2"].state = "failed"
    /\ refResult.data["c1"] = <<"c1-1">>
    /\ refResult.data["c2"] = <<>>

SaveInFlight == pc \in {"uploading", "saving"}

\* C23: while a save is in flight (its uploads are running or its saveAll
\* post is unanswered) isSaving is true and there is exactly one such save:
\* either the upload loop or one request, never both; the Save and Cancel
\* buttons are enabled only when hasChanges holds and isSaving is false; and
\* every click on Save and every handleCancel starts in a state with no save
\* in flight.
C23_OneSaveInFlight ==
    /\ [](/\ SaveInFlight => isSaving
          /\ Len(request) <= 1
          /\ (pc = "saving") = (request # NoRequest)
          /\ pc # "uploading" => uploadIter = <<>>
          /\ pc = "uploading" => uploadIter # <<>>
          /\ (isSaving \/ ~hasChanges) => ~ButtonsEnabled)
    /\ [][(opCount' = opCount + 1 /\ lastOp' \in {"submit", "handleCancel"})
            => (~SaveInFlight /\ ~isSaving /\ hasChanges)]_vars

\* the post of a save that first uploaded a file is unanswered, with changes
\* on the page
C23_Witness ==
    /\ pc = "saving"
    /\ lastOp = "uploadOne"
    /\ isSaving
    /\ hasChanges
    /\ ~ButtonsEnabled

\* C24: whenever hasChanges() is true the payload has at least one update,
\* create or delete; after a drag that changed the order of the ids the
\* payload has an update.
C24_ChangesGivePayload ==
    hasChanges =>
        /\ Len(getPayload.updates) + Len(getPayload.creates)
              + Len(getPayload.deletes) > 0
        /\ (lastOp = "handleDndFinalize" /\ Ids(items) # Ids(originalItems))
              => Len(getPayload.updates) > 0

\* what is on the page is what the collection holds
ShowsStored ==
    /\ Len(items) = Len(remote)
    /\ \A i \in 1..Len(items) : \E j \in 1..Len(remote) :
          /\ remote[j].id = items[i].id
          /\ Stringify(normalizeFieldData(remote[j].fieldData))
                = Stringify(normalizeFieldData(items[i].fieldData))

\* C28: with a Number sort field of either direction, when the rows were
\* dragged into an order, the save succeeded and the page still shows what
\* was saved, the reload with loadCmsItems lists the items in that order.
C28_ReorderRoundTrip ==
    [][(/\ lastOp = "handleSaveComplete"
        /\ lastOp' = "syncData"
        /\ ShowsStored)
       => Ids(items') = Ids(items)]_vars

\* the same for the ascending direction alone
C28_Ascending ==
    [][(/\ lastOp = "handleSaveComplete"
        /\ lastOp' = "syncData"
        /\ multiplier = 1
        /\ ShowsStored)
       => Ids(items') = Ids(items)]_vars

BaselineOf(id) == originalItems[CHOOSE j \in 1..Len(originalItems) : originalItems[j].id = id]

\* C25: every tombstone of an item of the baseline carries the live status
\* the item has in the baseline, whatever the user did to the row before
\* deleting it; so the save of a tombstone of a live item calls
\* deleteItemLive for it.
C25_TombstoneLiveStatus ==
    /\ \A k \in 1..Len(pendingDeletes) :
          (\E j \in 1..Len(originalItems) : originalItems[j].id = pendingDeletes[k].id)
            => pendingDeletes[k].wasLive =
                 (~BaselineOf(pendingDeletes[k].id).isDraft
                    /\ ~BaselineOf(pendingDeletes[k].id).isArchived)
    /\ (pc = "saving") =>
          \A k \in 1..Len(request[1].deletes) :
             \A j \in 1..Len(originalItems) :
                (/\ originalItems[j].id = request[1].deletes[k].id
                 /\ ~originalItems[j].isDraft /\ ~originalItems[j].isArchived)
                => \E c \in 1..Len(SaveAllCalls(request[1])) :
                      SaveAllCalls(request[1])[c] =
                        [api |-> "deleteItemLive", id |-> originalItems[j].id]

\* C26: whenever isSaving is true it is false again at some later moment,
\* however the save attempt ends.
C26_SavingEnds == isSaving ~> ~isSaving

\* the state such an attempt is left in has no way out: with isSaving true
\* and nothing in flight, every handler of the page leaves both as they are
C26_StaysSaving ==
    [][(isSaving /\ pc = "idle") => (isSaving' /\ pc' = "idle")]_vars

\* the ids handleAddItem hands out
TempIds == {"temp-" \o ToString(k) : k \in 1..(MaxOps + 1)}

Without(list, i) == SubSeq(list, 1, i - 1) \o SubSeq(list, i + 1, Len(list))

\* C29: the delete of a pending-create row takes exactly that item out of
\* pendingCreates and leaves pendingDeletes and items as they are; every id
\* in pendingDeletes is the id of an item of originalItems that is not in
\* items and is no temporary id; and the deletes of a payload on its way to
\* saveAll are ids of loaded items only.
C29_TombstonesArePersisted ==
    /\ [](/\ \A k \in 1..Len(pendingDeletes) :
                /\ \E j \in 1..Len(originalItems) :
                      originalItems[j].id = pendingDeletes[k].id
                /\ \A j \in 1..Len(items) : items[j].id # pendingDeletes[k].id
                /\ pendingDeletes[k].id \notin TempIds
          /\ \A j \in 1..Len(pendingCreates) : pendingCreates[j].id \in TempIds
          /\ pc = "saving" =>
                \A k \in 1..Len(request[1].deletes) :
                   /\ request[1].deletes[k].id \notin TempIds
                   /\ \E j \in 1..Len(data) : data[j].id = request[1].deletes[k].id)
    /\ [][(opCount' = opCount + 1 /\ lastOp' = "deletePendingCreate")
            => /\ pendingDeletes' = pendingDeletes
               /\ items' = items
               /\ \E i \in 1..Len(pendingCreates) :
                     pendingCreates' = Without(pendingCreates, i)]_vars

\* a persisted row and a pending-create row were deleted: one tombstone
C29_Witness ==
    /\ lastOp = "deletePendingCreate"
    /\ pendingCreates = <<>>
    /\ Len(pendingDeletes) = 1
    /\ Len(items) = 1

\* C30: for every visible field that the cell renders as an input (its
\* editable flag is true or left out), validateItems() returns the errors
\* of the required, length and range checks, as it does for a field whose
\* flag is true.
C30_ValidatesWhatIsEditable ==
    Validated =>
        \A i \in 1..Len(items \o pendingCreates) :
          \A k \in 1..Len(config.fields) :
            LET item == (items \o pendingCreates)[i]
                field == config.fields[k]
            IN (field.visible /\ cellEditable(field))
                 => ErrorsFor(item, field)
                      = FieldErrors(item, SetKey(field, "editable", TRUE))

====
